---- MODULE Spec2Model ----
(***************************************************************************)
(* A model of the kache-affiliate analysis pipeline: the record store      *)
(* (DataStorage), the trend engine (TrendAnalysisService), the competitor  *)
(* engine (CompetitorAnalysisService) and the strategy generator           *)
(* (MarketingStrategyService).                                             *)
(*                                                                         *)
(* Conventions.  A JavaScript value that may be undefined is the string    *)
(* NoValue; a query that is a number instead of a string is NumQuery.      *)
(* A serialized payload (JSON.stringify) is the sequence of its word       *)
(* tokens, and a substring test for a niche keyword is a test for that     *)
(* token.  Times are ticks of the millisecond clock.  Money is in cents,   *)
(* sentiment and growth in hundredths.  An async method runs              *)
(* synchronously up to each await; every await is a point where another    *)
(* call's step may run, so each action below is one such synchronous       *)
(* block.                                                                  *)
(***************************************************************************)
EXTENDS Integers, Sequences, FiniteSets, TLC

VARIABLES
  \* DataStorage
  data,        \* this.data: category -> sequence of records, in key order
  catOrder,    \* the keys of this.data, in insertion order
  indexes,     \* this.indexes: byDate, bySource, byKeyword
  lsStore,     \* localStorage: kache_affiliate_data / kache_affiliate_indexes
  clock,       \* the wall clock, in ticks
  lastStore,   \* the last storeData call: its id and what it returned
  \* TrendAnalysisService
  trendData,   \* this.trendData
  tInit,       \* this.initialized
  lsTrend,     \* localStorage: kache_affiliate_trends
  tcalls,      \* the analyzeAllData calls: position, snapshot, observations
  \* CompetitorAnalysisService
  competitorData,  \* this.competitorData
  cInit,           \* this.initialized
  lsComp,          \* localStorage: kache_affiliate_competitors
  ccalls,          \* the analyzeAllData calls
  lastComp,        \* the last updateCompetitor or removeCompetitor call
  \* MarketingStrategyService
  strategies,  \* this.strategies
  sInit,       \* this.initialized
  scalls,      \* the generateStrategy calls
  \* Date.now() + Math.random() ids
  synth,       \* the number of synthesized ids handed out so far
  \* ScraperService
  scrapingTasks,    \* this.scrapingTasks
  scrapingResults,  \* the results stored, by task id, in order
  xcalls,           \* the executeTask and executeAllPendingTasks calls
  \* getCompetitiveGapAnalysis
  gap          \* the cutoffs and the analyses made so far

storeVars == <<data, catOrder, indexes, lsStore, clock, lastStore>>
trendVars == <<trendData, tInit, lsTrend, tcalls>>
compVars  == <<competitorData, cInit, lsComp, ccalls>>
stratVars == <<strategies, sInit, scalls>>
scraperVars == <<scrapingTasks, scrapingResults, xcalls>>
vars == <<storeVars, trendVars, compVars, lastComp, stratVars, synth, scraperVars, gap>>

-----------------------------------------------------------------------------
(* Bounds of the model. *)

MaxClock   == 2    \* the clock stops ticking here
MaxRecords == 2    \* records in the store
MaxCalls   == 2    \* calls of one operation that may overlap

-----------------------------------------------------------------------------
(* Values. *)

NoValue  == "undefined"
NumQuery == "#42"
NoDoc    == [absent |-> TRUE, parses |-> TRUE, json |-> <<>>]

\* A saved text that JSON.parse throws on, and a saved object with none of
\* the maps of an engine, as another version of the application leaves it.
Unparsable  == [absent |-> FALSE, parses |-> FALSE, json |-> <<>>]
OtherObject == [version |-> "1"]
ParseThrows(doc) == ~doc.absent /\ ~doc.parses
HasMap(tree, map) == map \in DOMAIN tree

IsString(v) == v \notin {NoValue, NumQuery}

\* A count that is undefined.  Compared with a number, undefined is neither
\* below nor above it.
NoCount == -1
Below(count, min) == count # NoCount /\ count < min
Truthy(v)   == v # NoValue

\* String.prototype.toLowerCase, on the strings of the model.
Lower(s) == CASE s = "AI" -> "ai" [] s = "DIY" -> "diy" [] OTHER -> s

SeqToSet(s) == {s[i] : i \in 1..Len(s)}

RECURSIVE Flatten(_)
Flatten(ss) == IF ss = <<>> THEN <<>> ELSE Head(ss) \o Flatten(Tail(ss))

RECURSIVE Remove(_, _)
Remove(s, x) ==
  IF s = <<>> THEN <<>>
  ELSE IF Head(s) = x THEN Remove(Tail(s), x)
       ELSE <<Head(s)>> \o Remove(Tail(s), x)

\* push(x) unless includes(x)
PushNew(s, x) == IF x \in SeqToSet(s) THEN s ELSE Append(s, x)

RECURSIVE PushAllNew(_, _)
PushAllNew(s, xs) ==
  IF xs = <<>> THEN s ELSE PushAllNew(PushNew(s, Head(xs)), Tail(xs))

-----------------------------------------------------------------------------
(* Result items and payloads, as the scrapers produce them, and the         *)
(* malformed ones a loosely typed payload may be.                           *)

Item(kind, id, title, words, actorId, actorName, audience, url) ==
  [kind |-> kind, id |-> id, title |-> title, words |-> words,
   hasActor |-> actorName # NoValue \/ actorId # NoValue,
   actorId |-> actorId, actorName |-> actorName,
   audience |-> audience, url |-> url]

TweetTop  == Item("tweet", "1", NoValue, <<"amazing", "ai", "product", "affiliate">>,
                  "123", "Top Affiliate", 5000, NoValue)
TweetPro  == Item("tweet", "2", NoValue, <<"earned", "promoting", "ai", "passive">>,
                  "456", "Passive Income Pro", 12000, NoValue)
TweetNoCount == Item("tweet", "4", NoValue, <<"ai", "automation", "daily">>,
                     "321", "Hidden Reach", NoCount, NoValue)
TweetTiny == Item("tweet", "3", NoValue, <<"terrible", "diy", "tools">>,
                  "789", "Nobody", 500, NoValue)
PinBest   == Item("pin", "pin1", "Best diy Products", <<"best", "diy", "products", "title">>,
                  NoValue, NoValue, 230, "https://example.com/diy-products")
PinGuide  == Item("pin", "pin2", "How to Make Money", <<"money", "guide", "title">>,
                  NoValue, NoValue, 450, "https://example.com/diy-affiliate-guide")
VideoGuru == Item("video", "video1", NoValue, <<"made", "with", "ai", "affiliate">>,
                  "user1", "affiliateguru", 50000, NoValue)
ProdKit   == Item("product", "B08N5KWB9H", "Premium diy Product",
                  <<"premium", "diy", "excellent", "title">>,
                  NoValue, NoValue, 0, "https://amazon.com/dp/B08N5KWB9H")
ProdNoId  == Item("product", NoValue, "Ultimate ai Guide",
                  <<"ultimate", "guide", "title", "guide">>,
                  NoValue, NoValue, 0, NoValue)

Payload(platform, query, hasResults, results) ==
  [isNull |-> FALSE, platform |-> platform, query |-> query,
   hasResults |-> hasResults, results |-> results]

NullPayload == [isNull |-> TRUE, platform |-> NoValue, query |-> NoValue,
                hasResults |-> FALSE, results |-> <<>>]

PTwitter   == Payload("twitter", "ai", TRUE, <<TweetTop, TweetPro>>)
PTwitterUp == Payload("twitter", "AI", TRUE, <<TweetTop, TweetTiny>>)
PTwitterOne == Payload("twitter", "ai", TRUE, <<TweetTop>>)
PTwitterNoCount == Payload("twitter", "ai", TRUE, <<TweetNoCount>>)
PPinterest == Payload("pinterest", "diy", TRUE, <<PinBest, PinGuide>>)
PTikTok    == Payload("tiktok", "ai", TRUE, <<VideoGuru>>)
PAmazon    == Payload("amazon", "diy", TRUE, <<ProdKit>>)
PNoId      == Payload("clickbank", "ai", TRUE, <<ProdNoId>>)
PNumQuery  == Payload("amazon", NumQuery, TRUE, <<ProdKit>>)

-----------------------------------------------------------------------------
(* DataStorage. *)

CtorCategories ==
  <<"socialMedia", "affiliateNetworks", "websites", "trends", "competitors">>

EmptyIndexes == [byDate |-> <<>>, bySource |-> <<>>, byKeyword |-> <<>>]

Categories == SeqToSet(CtorCategories) \cup {"twitter", "pinterest", "tiktok", "amazon", "clickbank"}

EmptyData == [c \in Categories |-> <<>>]

\* new Date().toISOString().split('T')[0]
TicksPerDay == 2
DateOf(t) == t \div TicksPerDay

\* `${category}_${source}_${timestamp}`
RecordId(category, source, timestamp) == <<category, source, timestamp>>

\* `${category}_${source}`
SourceKey(category, source) == <<category, source>>

MkRecord(category, source, timestamp, payload) ==
  [id |-> RecordId(category, source, timestamp), category |-> category,
   source |-> source, timestamp |-> timestamp, data |-> payload]

Ids(recs) == {recs[i].id : i \in 1..Len(recs)}

\* obj[id] = rec: an existing key keeps its place, a new key goes last.
PutRecord(recs, rec) ==
  IF rec.id \in Ids(recs)
  THEN [i \in 1..Len(recs) |-> IF recs[i].id = rec.id THEN rec ELSE recs[i]]
  ELSE Append(recs, rec)

\* An index is a sequence of <<key, ids>> pairs in key insertion order.
IndexKeys(ix) == {ix[i][1] : i \in 1..Len(ix)}
IndexPush(ix, k, id) ==
  IF k \in IndexKeys(ix)
  THEN [i \in 1..Len(ix) |-> IF ix[i][1] = k THEN <<k, Append(ix[i][2], id)>> ELSE ix[i]]
  ELSE Append(ix, <<k, <<id>>>>)
IndexDrop(ix, id) == [i \in 1..Len(ix) |-> <<ix[i][1], Remove(ix[i][2], id)>>]

AllRecords(d, order) == Flatten([i \in 1..Len(order) |-> d[order[i]]])
StoredIds(d) == UNION {Ids(d[c]) : c \in Categories}

\* searchData() with no criteria: every record, category by category.
searchData == AllRecords(data, catOrder)

\* _updateIndexes throws on data.query of a null payload and on
\* toLowerCase of a query that is not a string; the byDate and bySource
\* pushes have happened by then.
UpdateIndexesThrows(payload) ==
  payload.isNull \/ (Truthy(payload.query) /\ ~IsString(payload.query))

updateIndexes(ix, id, category, source, payload, today) ==
  LET ix1 == [ix EXCEPT !.byDate = IndexPush(@, today, id),
                        !.bySource = IndexPush(@, SourceKey(category, source), id)]
  IN IF UpdateIndexesThrows(payload) \/ ~Truthy(payload.query)
     THEN ix1
     ELSE [ix1 EXCEPT !.byKeyword = IndexPush(@, Lower(payload.query), id)]

\* storeData as a function of the store: the record is put first, then the
\* indexes are updated, then the store is saved; a throw of _updateIndexes
\* is caught after the first two, and null is returned.  now is the clock
\* read for the id, today the clock read again for the date.
StoreOf(d, order, ix, ls) == [data |-> d, catOrder |-> order, indexes |-> ix, ls |-> ls]

storeDataFn(st, category, source, payload, now, today) ==
  LET rec == MkRecord(category, source, now, payload)
      ix  == updateIndexes(st.indexes, rec.id, category, source, payload, today)
      d   == [st.data EXCEPT ![category] = PutRecord(@, rec)]
  IN StoreOf(d, PushNew(st.catOrder, category), ix,
             IF UpdateIndexesThrows(payload) THEN st.ls
             ELSE [data |-> d, indexes |-> ix])

storeData(category, source, payload, later) ==
  LET st == storeDataFn(StoreOf(data, catOrder, indexes, lsStore),
                        category, source, payload, clock, DateOf(clock + later))
      id == RecordId(category, source, clock)
  IN /\ data' = st.data
     /\ catOrder' = st.catOrder
     /\ indexes' = st.indexes
     /\ lsStore' = st.ls
     /\ lastStore' = [id |-> id,
                      returned |-> IF UpdateIndexesThrows(payload) THEN "null" ELSE "id",
                      fresh |-> id \notin StoredIds(data)]
     /\ clock' = clock

deleteData(id) ==
  /\ id \in StoredIds(data)
  /\ LET d  == [c \in Categories |-> SelectSeq(data[c], LAMBDA r : r.id # id)]
         ix == [byDate |-> IndexDrop(indexes.byDate, id),
                bySource |-> IndexDrop(indexes.bySource, id),
                byKeyword |-> IndexDrop(indexes.byKeyword, id)]
     IN /\ data' = d
        /\ indexes' = ix
        /\ lsStore' = [data |-> d, indexes |-> ix]
  /\ UNCHANGED <<catOrder, clock, lastStore>>

clearAllData ==
  /\ data' = EmptyData
  /\ catOrder' = CtorCategories
  /\ indexes' = EmptyIndexes
  /\ lsStore' = [data |-> EmptyData, indexes |-> EmptyIndexes]
  /\ UNCHANGED <<clock, lastStore>>

Tick ==
  /\ clock < MaxClock
  /\ clock' = clock + 1
  /\ UNCHANGED <<data, catOrder, indexes, lsStore, lastStore>>

NoStore == [id |-> <<>>, returned |-> "none", fresh |-> TRUE]

StoreInit ==
  /\ data = EmptyData
  /\ catOrder = CtorCategories
  /\ indexes = EmptyIndexes
  /\ lsStore = NoDoc
  /\ clock = 0
  /\ lastStore = NoStore

-----------------------------------------------------------------------------
(* TrendAnalysisService: the pure helpers. *)

PreferredNiches ==
  <<"Survival & Emergency Preparedness", "DIY & Home Improvement",
    "Personal Finance & Making Money Online", "E-Learning & Skill-Building",
    "AI & Automation Tools">>

\* getNicheKeywords, cut to the keywords that are tokens of the model.
getNicheKeywords(niche) ==
  CASE niche = "Survival & Emergency Preparedness" -> {"survival", "emergency"}
    [] niche = "DIY & Home Improvement" -> {"diy", "tools"}
    [] niche = "Personal Finance & Making Money Online" -> {"money", "budget"}
    [] niche = "E-Learning & Skill-Building" -> {"training", "tutorial"}
    [] niche = "AI & Automation Tools" -> {"ai", "automation"}
    [] OTHER -> {}

\* JSON.stringify(results).toLowerCase(), as its tokens.
Serialized(results) == Flatten([i \in 1..Len(results) |-> results[i].words])

\* The test of analyzeByNiche: a niche keyword occurs in the query or in
\* the serialized results.  The query is a string here.
MatchesNiche(niche, query, results) ==
  \E kw \in getNicheKeywords(niche) :
    Lower(query) = kw \/ kw \in SeqToSet(Serialized(results))

Count(s, x) == Cardinality({i \in 1..Len(s) : s[i] = x})

\* The keys of wordCounts, in insertion order.
RECURSIVE Distinct(_)
Distinct(s) ==
  IF s = <<>> THEN <<>>
  ELSE <<Head(s)>> \o Distinct(Remove(Tail(s), Head(s)))

\* Array.prototype.sort((a, b) => b[1] - a[1]): stable, by count descending.
RECURSIVE InsertByCount(_, _, _)
InsertByCount(sorted, w, all) ==
  IF sorted = <<>> THEN <<w>>
  ELSE IF Count(all, Head(sorted)) >= Count(all, w)
       THEN <<Head(sorted)>> \o InsertByCount(Tail(sorted), w, all)
       ELSE <<w>> \o sorted

RECURSIVE SortByCount(_, _)
SortByCount(ws, all) ==
  IF ws = <<>> THEN <<>>
  ELSE InsertByCount(SortByCount(SubSeq(ws, 1, Len(ws) - 1), all), ws[Len(ws)], all)

TopKeywords == 10
MinWordLen  == 3

extractKeywords(results) ==
  LET words  == SelectSeq(Serialized(results), LAMBDA w : Len(w) > MinWordLen)
      sorted == SortByCount(Distinct(words), words)
  IN SubSeq(sorted, 1, IF Len(sorted) < TopKeywords THEN Len(sorted) ELSE TopKeywords)

positiveWords == {"good", "great", "excellent", "amazing", "best", "love", "perfect"}
negativeWords == {"bad", "poor", "terrible", "awful", "worst", "hate", "useless"}

\* parseFloat(x.toFixed(2)) of num / den, in hundredths.
Hundredths(num, den) ==
  IF num >= 0 THEN (200 * num + den) \div (2 * den)
  ELSE -((200 * (-num) + den) \div (2 * den))

calculateSentimentFlipped(results) ==
  LET text == Serialized(results)
      pos  == Cardinality({i \in 1..Len(text) : text[i] \in positiveWords})
      neg  == Cardinality({i \in 1..Len(text) : text[i] \in negativeWords})
  IN IF pos + neg = 0 THEN 0 ELSE Hundredths(neg - pos, pos + neg)
calculateSentiment(results) ==
  LET text == Serialized(results)
      pos  == Cardinality({i \in 1..Len(text) : text[i] \in positiveWords})
      neg  == Cardinality({i \in 1..Len(text) : text[i] \in negativeWords})
  IN IF pos + neg = 0 THEN 0 ELSE Hundredths(pos - neg, pos + neg)

\* A product id: the payload's, or `product_${Date.now()}_${random}`, which
\* is new at every extraction.
PayloadId(s) == [from |-> "payload", s |-> s, n |-> 0]
SynthId(n)   == [from |-> "synth", s |-> "", n |-> n]

IsProduct(item) == Truthy(item.title)

\* extractProducts(results): the products, given the count of synthesized
\* ids handed out before.
RECURSIVE extractProducts(_, _)
extractProducts(results, n) ==
  IF results = <<>> THEN <<>>
  ELSE LET r == Head(results)
       IN IF ~IsProduct(r) THEN extractProducts(Tail(results), n)
          ELSE IF Truthy(r.id)
               THEN <<[id |-> PayloadId(r.id), title |-> r.title]>>
                    \o extractProducts(Tail(results), n)
               ELSE <<[id |-> SynthId(n + 1), title |-> r.title]>>
                    \o extractProducts(Tail(results), n + 1)

\* The ids extractProducts(results) synthesizes.
Synthesized(results) ==
  Cardinality({i \in 1..Len(results) : IsProduct(results[i]) /\ ~Truthy(results[i].id)})

ProductIds(ps) == {ps[i].id : i \in 1..Len(ps)}

RECURSIVE PushNewProducts(_, _)
PushNewProducts(list, ps) ==
  IF ps = <<>> THEN list
  ELSE PushNewProducts(IF Head(ps).id \in ProductIds(list) THEN list
                       ELSE Append(list, Head(ps)), Tail(ps))

-----------------------------------------------------------------------------
(* TrendAnalysisService: the passes, as functions of the derived state.     *)
(* A pass returns the state it leaves, the synthesized-id count and whether *)
(* it threw into its own catch (and so returned success: false).            *)

EmptyTrendData == [niches |-> <<>>, keywords |-> <<>>, products |-> <<>>]

NewNiche == [popularity |-> 0, growth |-> 0, keywords |-> <<>>, products |-> <<>>]
NewKeyword == [mentions |-> 0, sentiment |-> 0, relatedKeywords |-> <<>>, sources |-> <<>>]
NewProduct(p) ==
  [title |-> p.title, mentions |-> 0, sentiment |-> 0, relatedKeywords |-> <<>>,
   sources |-> <<>>]

\* obj[k] = obj[k] || v
WithKey(f, k, v) == IF k \in DOMAIN f THEN f ELSE f @@ (k :> v)

RECURSIVE InitNiches(_, _)
InitNiches(niches, names) ==
  IF names = <<>> THEN niches
  ELSE InitNiches(WithKey(niches, Head(names), NewNiche), Tail(names))

Skipped(rec) == rec.data.isNull \/ ~rec.data.hasResults

\* item.data.query || ''
QueryOrEmpty(rec) == IF Truthy(rec.data.query) THEN rec.data.query ELSE ""

\* One record against the niches names, in order.
RECURSIVE NicheRecord(_, _, _, _)
NicheRecord(niches, n, rec, names) ==
  IF names = <<>> THEN [niches |-> niches, n |-> n]
  ELSE LET niche   == Head(names)
           results == rec.data.results
       IN IF ~MatchesNiche(niche, QueryOrEmpty(rec), results)
          THEN NicheRecord(niches, n, rec, Tail(names))
          ELSE LET old == niches[niche]
                   new == [old EXCEPT
                             !.popularity = @ + 1,
                             !.keywords = PushAllNew(@, extractKeywords(results)),
                             !.products = PushNewProducts(@, extractProducts(results, n))]
               IN NicheRecord([niches EXCEPT ![niche] = new],
                              n + Synthesized(results), rec, Tail(names))

\* query.toLowerCase() of a query that is no string throws.
NicheThrows(rec) == ~Skipped(rec) /\ ~IsString(QueryOrEmpty(rec))

RECURSIVE NicheLoop(_, _, _)
NicheLoop(niches, n, recs) ==
  IF recs = <<>> THEN [niches |-> niches, n |-> n, threw |-> FALSE]
  ELSE LET rec == Head(recs)
       IN IF Skipped(rec) THEN NicheLoop(niches, n, Tail(recs))
          ELSE IF NicheThrows(rec) THEN [niches |-> niches, n |-> n, threw |-> TRUE]
          ELSE LET r == NicheRecord(niches, n, rec, PreferredNiches)
               IN NicheLoop(r.niches, r.n, Tail(recs))

\* Math.random() * 0.2 + 0.9, as the growth per unit of popularity.
Jitters == {-10, 9}

\* calculateNicheGrowth with the random factors j.
calculateNicheGrowth(niches, j) ==
  [k \in DOMAIN niches |->
     [niches[k] EXCEPT !.growth = IF niches[k].popularity = 0 THEN 0
                                  ELSE niches[k].popularity * j[k]]]

Popular(niches) == {k \in DOMAIN niches : niches[k].popularity > 0}

\* With no niches map the first this.trendData.niches[niche] throws.
analyzeByNiche(td, recs, n, j) ==
  IF ~HasMap(td, "niches") THEN [td |-> td, n |-> n, threw |-> TRUE]
  ELSE LET r == NicheLoop(InitNiches(td.niches, PreferredNiches), n, recs)
       IN [td |-> [td EXCEPT !.niches = IF r.threw THEN r.niches
                                        ELSE calculateNicheGrowth(r.niches, j)],
           n |-> r.n, threw |-> r.threw]

KeywordSkipped(rec) == Skipped(rec) \/ ~Truthy(rec.data.query)

RECURSIVE KeywordLoop(_, _)
KeywordLoop(keywords, recs) ==
  IF recs = <<>> THEN [keywords |-> keywords, threw |-> FALSE]
  ELSE LET rec == Head(recs)
       IN IF KeywordSkipped(rec) THEN KeywordLoop(keywords, Tail(recs))
          ELSE IF ~IsString(rec.data.query) THEN [keywords |-> keywords, threw |-> TRUE]
          ELSE LET query == Lower(rec.data.query)
                   ks    == WithKey(keywords, query, NewKeyword)
                   new   == [ks[query] EXCEPT
                               !.mentions = @ + 1,
                               !.sources = PushNew(@, rec.source),
                               !.relatedKeywords =
                                  PushAllNew(@, Remove(extractKeywords(rec.data.results), query)),
                               !.sentiment = calculateSentiment(rec.data.results)]
               IN KeywordLoop([ks EXCEPT ![query] = new], Tail(recs))

\* With no keywords map the first record that is not skipped throws.
analyzeByKeyword(td, recs) ==
  IF ~HasMap(td, "keywords")
  THEN [td |-> td, threw |-> \E i \in 1..Len(recs) : ~KeywordSkipped(recs[i])]
  ELSE LET r == KeywordLoop(td.keywords, recs)
       IN [td |-> [td EXCEPT !.keywords = r.keywords], threw |-> r.threw]

RECURSIVE ProductRecord(_, _, _)
ProductRecord(products, ps, rec) ==
  IF ps = <<>> THEN products
  ELSE LET id  == Head(ps).id
           prs == WithKey(products, id, NewProduct(Head(ps)))
           new == [prs[id] EXCEPT
                     !.mentions = @ + 1,
                     !.sources = PushNew(@, rec.source),
                     !.relatedKeywords = PushAllNew(@, extractKeywords(rec.data.results)),
                     !.sentiment = calculateSentiment(rec.data.results)]
       IN ProductRecord([prs EXCEPT ![id] = new], Tail(ps), rec)

RECURSIVE ProductLoop(_, _, _)
ProductLoop(products, n, recs) ==
  IF recs = <<>> THEN [products |-> products, n |-> n]
  ELSE LET rec == Head(recs)
       IN IF Skipped(rec) THEN ProductLoop(products, n, Tail(recs))
          ELSE ProductLoop(
                 ProductRecord(products, extractProducts(rec.data.results, n), rec),
                 n + Synthesized(rec.data.results), Tail(recs))

\* With no products map the first extracted product throws, after the
\* products of its record got their ids.
RECURSIVE NoProductsMap(_, _)
NoProductsMap(n, recs) ==
  IF recs = <<>> THEN [n |-> n, threw |-> FALSE]
  ELSE LET rec == Head(recs)
       IN IF Skipped(rec) \/ extractProducts(rec.data.results, n) = <<>>
          THEN NoProductsMap(n, Tail(recs))
          ELSE [n |-> n + Synthesized(rec.data.results), threw |-> TRUE]

analyzeByProduct(td, recs, n) ==
  IF ~HasMap(td, "products")
  THEN [td |-> td, n |-> NoProductsMap(n, recs).n, threw |-> NoProductsMap(n, recs).threw]
  ELSE LET r == ProductLoop(td.products, n, recs)
       IN [td |-> [td EXCEPT !.products = r.products], n |-> r.n, threw |-> FALSE]

-----------------------------------------------------------------------------
(* TrendAnalysisService: initialize, saveToStorage and analyzeAllData.      *)

\* JSON.stringify / JSON.parse of a derived-state tree: the tree holds
\* numbers, strings and arrays only, which both keep.
ToJson(tree)  == [absent |-> FALSE, parses |-> TRUE, json |-> tree]
FromJson(doc) == doc.json

\* initialize(): the saved document replaces the state when there is one;
\* what it parses to is not looked at.  When JSON.parse throws, the catch
\* returns false: the state and the initialized flag stay as they were.
LoadedEmpty(doc, current) == EmptyTrendData
Loaded(doc, current) ==
  IF doc.absent \/ ParseThrows(doc) THEN current ELSE FromJson(doc)
Initialized(doc, was) == IF ParseThrows(doc) THEN was ELSE TRUE

CallIds == 1..MaxCalls

IdleCall ==
  [pc |-> "idle", allData |-> <<>>, passes |-> 0, threw |-> {}, result |-> "none",
   before |-> <<>>, after |-> <<>>, prevDone |-> {}, overlapped |-> FALSE,
   reloaded |-> FALSE]

InFlightPcs == {"init", "keyword", "product", "timeframe", "strategy", "content",
                "performance", "niche", "save"}
InFlight(calls, c) == calls[c].pc \in InFlightPcs
Done(calls, c)     == calls[c].pc = "done"
DoneSet(calls)     == {c \in CallIds : Done(calls, c)}
OthersInFlight(calls, c) == {d \in CallIds \ {c} : InFlight(calls, d)}

\* A call enters: the calls in flight overlap it, the finished ones precede it.
Enter(calls, c) ==
  [d \in CallIds |->
     IF d = c THEN [calls[d] EXCEPT !.prevDone = DoneSet(calls),
                                    !.overlapped = OthersInFlight(calls, c) # {}]
     ELSE IF InFlight(calls, d) THEN [calls[d] EXCEPT !.overlapped = TRUE]
     ELSE calls[d]]

\* An external initialize() runs: the calls in flight had the state reloaded
\* under them.
Reload(calls) ==
  [d \in CallIds |->
     IF InFlight(calls, d) THEN [calls[d] EXCEPT !.reloaded = TRUE] ELSE calls[d]]

MayStart(calls, c) ==
  /\ calls[c].pc = "idle"
  /\ IF c = 1 THEN TRUE ELSE calls[c - 1].pc # "idle"

\* The external initialize(): a component mount or the strategy service.
TrendInitialize ==
  /\ trendData' = Loaded(lsTrend, trendData)
  /\ tInit' = Initialized(lsTrend, tInit)
  /\ tcalls' = Reload(tcalls)
  /\ UNCHANGED <<lsTrend, synth>>

NichePass(td, recs, n) ==
  IF ~HasMap(td, "niches") THEN [niches |-> <<>>, n |-> n, threw |-> TRUE]
  ELSE NicheLoop(InitNiches(td.niches, PreferredNiches), n, recs)

\* An analyzeAllData that resets the derived state when the store is empty.
TrendBeginReset(c, calls) ==
  LET allData == searchData
  IN IF allData = <<>>
     THEN /\ tcalls' = [calls EXCEPT ![c].pc = "done", ![c].result = "empty",
                                     ![c].before = trendData, ![c].after = EmptyTrendData]
          /\ trendData' = EmptyTrendData
          /\ UNCHANGED synth
     ELSE \E j \in [Popular(NichePass(trendData, allData, synth).niches) -> Jitters] :
            LET r == analyzeByNiche(trendData, allData, synth, j)
            IN /\ trendData' = r.td
               /\ synth' = r.n
               /\ tcalls' = [calls EXCEPT
                               ![c].pc = "keyword", ![c].allData = allData,
                               ![c].passes = 1, ![c].before = trendData,
                               ![c].threw = IF r.threw THEN {"niche"} ELSE {}]

\* From the searchData() call to the await of analyzeByNiche.
TrendBegin(c, calls) ==
  LET allData == searchData
  IN IF allData = <<>>
     THEN /\ tcalls' = [calls EXCEPT ![c].pc = "done", ![c].result = "empty",
                                     ![c].before = trendData, ![c].after = trendData]
          /\ UNCHANGED <<trendData, synth>>
     ELSE \E j \in [Popular(NichePass(trendData, allData, synth).niches) -> Jitters] :
            LET r == analyzeByNiche(trendData, allData, synth, j)
            IN /\ trendData' = r.td
               /\ synth' = r.n
               /\ tcalls' = [calls EXCEPT
                               ![c].pc = "keyword", ![c].allData = allData,
                               ![c].passes = 1, ![c].before = trendData,
                               ![c].threw = IF r.threw THEN {"niche"} ELSE {}]

\* analyzeAllData() is called: initialize() first when not yet initialized.
TrendStart(c) ==
  /\ MayStart(tcalls, c)
  /\ IF ~tInit
     THEN /\ trendData' = Loaded(lsTrend, trendData)
          /\ tInit' = Initialized(lsTrend, tInit)
          /\ tcalls' = [Enter(tcalls, c) EXCEPT ![c].pc = "init"]
          /\ UNCHANGED <<lsTrend, synth>>
     ELSE /\ TrendBegin(c, Enter(tcalls, c))
          /\ UNCHANGED <<tInit, lsTrend>>

TrendAfterInit(c) ==
  /\ tcalls[c].pc = "init"
  /\ TrendBegin(c, tcalls)
  /\ UNCHANGED <<tInit, lsTrend>>

TrendKeyword(c) ==
  /\ tcalls[c].pc = "keyword"
  /\ LET r == analyzeByKeyword(trendData, tcalls[c].allData)
     IN /\ trendData' = r.td
        /\ tcalls' = [tcalls EXCEPT
                        ![c].pc = "product", ![c].passes = @ + 1,
                        ![c].threw = IF r.threw THEN @ \cup {"keyword"} ELSE @]
  /\ UNCHANGED <<tInit, lsTrend, synth>>

TrendProduct(c) ==
  /\ tcalls[c].pc = "product"
  /\ LET r == analyzeByProduct(trendData, tcalls[c].allData, synth)
     IN /\ trendData' = r.td
        /\ synth' = r.n
        /\ tcalls' = [tcalls EXCEPT
                        ![c].pc = "timeframe", ![c].passes = @ + 1,
                        ![c].threw = IF r.threw THEN @ \cup {"product"} ELSE @]
  /\ UNCHANGED <<tInit, lsTrend>>

\* analyzeByTimeframe writes trendData.timeframes only, which is not modelled.
TrendTimeframe(c) ==
  /\ tcalls[c].pc = "timeframe"
  /\ tcalls' = [tcalls EXCEPT ![c].pc = "save", ![c].passes = @ + 1]
  /\ UNCHANGED <<trendData, tInit, lsTrend, synth>>

\* An analyzeAllData that returns without saveToStorage().
TrendFinishUnsaved(c) ==
  /\ tcalls[c].pc = "save"
  /\ tcalls' = [tcalls EXCEPT ![c].pc = "done", ![c].result = "ok",
                              ![c].after = trendData]
  /\ UNCHANGED <<trendData, tInit, lsTrend, synth>>

\* saveToStorage() and the return of success: true.
TrendFinish(c) ==
  /\ tcalls[c].pc = "save"
  /\ lsTrend' = ToJson(trendData)
  /\ tcalls' = [tcalls EXCEPT ![c].pc = "done", ![c].result = "ok",
                              ![c].after = trendData]
  /\ UNCHANGED <<trendData, tInit, synth>>

TrendInit0 ==
  /\ trendData = EmptyTrendData
  /\ tInit = FALSE
  /\ lsTrend = NoDoc
  /\ tcalls = [c \in CallIds |-> IdleCall]
  /\ synth = 0

-----------------------------------------------------------------------------
(* CompetitorAnalysisService. *)

EmptyCompetitorData ==
  [competitors |-> <<>>, strategies |-> <<>>, content |-> <<>>,
   performance |-> <<>>, niches |-> <<>>]

\* The competitor map keeps insertion order: a sequence of profiles, each
\* with the key it is stored under.
\* competitors[id] is a profile; getCompetitor(id) returns it.
Tracked(cd, id) == \E i \in 1..Len(cd.competitors) : cd.competitors[i].key = id
getCompetitor(cd, id) == CHOOSE p \in SeqToSet(cd.competitors) : p.key = id

\* determineNiche(text): the first configured niche with a keyword in the
\* text, else the unclassified bucket.
RECURSIVE FirstNiche(_, _)
FirstNiche(names, words) ==
  IF names = <<>> THEN "unclassified"
  ELSE IF getNicheKeywords(Head(names)) \cap SeqToSet(words) # {} THEN Head(names)
       ELSE FirstNiche(Tail(names), words)
determineNiche(words) == FirstNiche(PreferredNiches, words)

\* addCompetitor(competitor): the id is synthesized (no extractor passes
\* one); the profile is built from the listed fields, and platformId is not
\* among them.  Every add and every update saves the whole structure.
addCompetitorNoPlatform(cd, n, c) ==
  [cd EXCEPT !.competitors =
     Append(@, [key |-> n + 1, id |-> n + 1, name |-> c.name, platform |-> NoValue,
                platformId |-> NoValue, niche |-> c.niche,
                metrics |-> c.metrics, content |-> <<>>])]
addCompetitor(cd, n, c) ==
  [cd EXCEPT !.competitors =
     Append(@, [key |-> n + 1, id |-> n + 1, name |-> c.name, platform |-> c.platform,
                platformId |-> NoValue, niche |-> c.niche,
                metrics |-> c.metrics, content |-> <<>>])]

\* updateCompetitor(id, {metrics}) and updateCompetitor(id, {content}), for
\* an id that is tracked.
updateMetrics(cd, id, metrics) ==
  [cd EXCEPT !.competitors =
     [i \in 1..Len(@) |-> IF @[i].key = id THEN [@[i] EXCEPT !.metrics = metrics] ELSE @[i]]]
pushContent(cd, id, item) ==
  [cd EXCEPT !.competitors =
     [i \in 1..Len(@) |-> IF @[i].key = id THEN [@[i] EXCEPT !.content = Append(@, item)]
                          ELSE @[i]]]

\* Array.prototype.find over Object.values(competitors): the id of the first
\* of the profiles that pass the test (hits), NotFound when none does.
NotFound == 0
Find(ps, hits) ==
  IF hits = {} THEN NotFound
  ELSE ps[CHOOSE i \in hits : \A k \in hits : i <= k].id

\* The indexes of the profiles of a platform with the platformId, or the name.
WithPlatformId(ps, platform, id) ==
  {i \in 1..Len(ps) : ps[i].platform = platform /\ ps[i].platformId = id}
WithName(ps, platform, name) ==
  {i \in 1..Len(ps) : ps[i].platform = platform /\ ps[i].name = name}

TwitterMinFollowers == 1000
PinterestMinSaves   == 100
TikTokMinFollowers  == 5000

\* The state an extractor threads: the data, the synthesized-id count and
\* whether anything was written (each write saves to localStorage).
Ext(cd, n, wrote) == [cd |-> cd, n |-> n, wrote |-> wrote]

extractTweet(st, tweet) ==
  IF ~tweet.hasActor \/ Below(tweet.audience, TwitterMinFollowers) THEN st
  ELSE LET existing == Find(st.cd.competitors,
                            WithPlatformId(st.cd.competitors, "twitter", tweet.actorId))
           metrics  == [followers |-> tweet.audience]
       IN IF existing # NotFound
          THEN IF ~Tracked(st.cd, existing) THEN st
               ELSE Ext(updateMetrics(st.cd, existing, metrics), st.n, TRUE)
          ELSE Ext(addCompetitor(st.cd, st.n,
                     [name |-> tweet.actorName, platform |-> "twitter",
                      niche |-> determineNiche(tweet.words), metrics |-> metrics]),
                   st.n + 1, TRUE)

\* An extractor that pushes the pin without the test for its url.
extractPinNoDedupe(st, pin) ==
  IF pin.audience \in {NoCount, 0} \/ Below(pin.audience, PinterestMinSaves) THEN st
  ELSE LET creatorName == IF Truthy(pin.actorName) THEN pin.actorName ELSE "Unknown Creator"
           existing == Find(st.cd.competitors,
                            WithName(st.cd.competitors, "pinterest", creatorName))
           item == [type |-> "pin", key |-> pin.url]
       IN IF existing # NotFound
          THEN IF ~Tracked(st.cd, existing) THEN st
               ELSE Ext(pushContent(st.cd, existing, item), st.n, TRUE)
          ELSE Ext(pushContent(
                     addCompetitor(st.cd, st.n,
                       [name |-> creatorName, platform |-> "pinterest",
                        niche |-> determineNiche(pin.words),
                        metrics |-> [followers |-> pin.audience]]),
                     st.n + 1, item),
                   st.n + 1, TRUE)

extractPin(st, pin) ==
  IF pin.audience \in {NoCount, 0} \/ Below(pin.audience, PinterestMinSaves) THEN st
  ELSE LET creatorName == IF Truthy(pin.actorName) THEN pin.actorName ELSE "Unknown Creator"
           existing == Find(st.cd.competitors,
                            WithName(st.cd.competitors, "pinterest", creatorName))
           item == [type |-> "pin", key |-> pin.url]
       IN IF existing # NotFound
          THEN IF ~Tracked(st.cd, existing) THEN st
               ELSE IF \E i \in 1..Len(getCompetitor(st.cd, existing).content) :
                         getCompetitor(st.cd, existing).content[i].key = pin.url
                    THEN st
                    ELSE Ext(pushContent(st.cd, existing, item), st.n, TRUE)
          ELSE Ext(pushContent(
                     addCompetitor(st.cd, st.n,
                       [name |-> creatorName, platform |-> "pinterest",
                        niche |-> determineNiche(pin.words),
                        metrics |-> [followers |-> pin.audience]]),
                     st.n + 1, item),
                   st.n + 1, TRUE)

extractVideo(st, video) ==
  IF ~video.hasActor \/ Below(video.audience, TikTokMinFollowers) THEN st
  ELSE LET existing == Find(st.cd.competitors,
                            WithPlatformId(st.cd.competitors, "tiktok", video.actorId))
           metrics  == [followers |-> video.audience]
           item     == [type |-> "video", key |-> video.id]
       IN IF existing # NotFound
          THEN LET cd1 == updateMetrics(st.cd, existing, metrics)
               IN IF ~Tracked(st.cd, existing) THEN st
                  ELSE IF \E i \in 1..Len(getCompetitor(cd1, existing).content) :
                            getCompetitor(cd1, existing).content[i].key = video.id
                       THEN Ext(cd1, st.n, TRUE)
                       ELSE Ext(pushContent(cd1, existing, item), st.n, TRUE)
          ELSE Ext(pushContent(
                     addCompetitor(st.cd, st.n,
                       [name |-> video.actorName, platform |-> "tiktok",
                        niche |-> determineNiche(video.words), metrics |-> metrics]),
                     st.n + 1, item),
                   st.n + 1, TRUE)

RECURSIVE extractItems(_, _, _)
extractItems(st, results, source) ==
  IF results = <<>> THEN st
  ELSE extractItems(
         CASE source = "twitter" -> extractTweet(st, Head(results))
           [] source = "pinterest" -> extractPin(st, Head(results))
           [] source = "tiktok" -> extractVideo(st, Head(results))
           [] OTHER -> st,
         Tail(results), source)

IsSocial(rec) ==
  rec.category = "socialMedia" \/ rec.source \in {"twitter", "pinterest", "tiktok"}

RECURSIVE identifyCompetitors(_, _)
identifyCompetitors(st, recs) ==
  IF recs = <<>> THEN st
  ELSE LET rec == Head(recs)
       IN IF ~IsSocial(rec) \/ Skipped(rec) THEN identifyCompetitors(st, Tail(recs))
          ELSE identifyCompetitors(extractItems(st, rec.data.results, rec.source), Tail(recs))

\* The later sub-passes recompute one derived map each from the tracked
\* competitors.
InNiche(cd, niche) == {i \in 1..Len(cd.competitors) : cd.competitors[i].niche = niche}

analyzeCompetitorStrategies(cd) ==
  [cd EXCEPT !.strategies = [i \in 1..Len(cd.competitors) |-> cd.competitors[i].platform]]
analyzeCompetitorContent(cd) ==
  [cd EXCEPT !.content = [i \in 1..Len(cd.competitors) |-> Len(cd.competitors[i].content)]]
analyzeCompetitorPerformance(cd) ==
  [cd EXCEPT !.performance =
     [i \in 1..Len(cd.competitors) |-> cd.competitors[i].metrics.followers]]
analyzeCompetitorsByNiche(cd) ==
  [cd EXCEPT !.niches =
     [i \in 1..Len(PreferredNiches) |-> Cardinality(InNiche(cd, PreferredNiches[i]))]]

\* The external initialize() of the competitor engine.
CompInitialize ==
  /\ competitorData' = Loaded(lsComp, competitorData)
  /\ cInit' = Initialized(lsComp, cInit)
  /\ ccalls' = Reload(ccalls)
  /\ UNCHANGED <<lsComp, synth>>

\* From the searchData() call to the await of identifyCompetitors.
CompBegin(c, calls) ==
  LET allData == searchData
      st      == identifyCompetitors(Ext(competitorData, synth, FALSE), allData)
  IN IF allData = <<>>
     THEN /\ ccalls' = [calls EXCEPT ![c].pc = "done", ![c].result = "empty",
                                     ![c].before = competitorData,
                                     ![c].after = competitorData]
          /\ UNCHANGED <<competitorData, lsComp, synth>>
     ELSE /\ competitorData' = st.cd
          /\ synth' = st.n
          /\ lsComp' = IF st.wrote THEN ToJson(st.cd) ELSE lsComp
          /\ ccalls' = [calls EXCEPT ![c].pc = "strategy", ![c].allData = allData,
                                     ![c].passes = 1, ![c].before = competitorData]

CompStart(c) ==
  /\ MayStart(ccalls, c)
  /\ IF ~cInit
     THEN /\ competitorData' = Loaded(lsComp, competitorData)
          /\ cInit' = Initialized(lsComp, cInit)
          /\ ccalls' = [Enter(ccalls, c) EXCEPT ![c].pc = "init"]
          /\ UNCHANGED <<lsComp, synth>>
     ELSE /\ CompBegin(c, Enter(ccalls, c))
          /\ UNCHANGED cInit

CompAfterInit(c) ==
  /\ ccalls[c].pc = "init"
  /\ CompBegin(c, ccalls)
  /\ UNCHANGED cInit

\* One of the four later sub-passes, then the await after it.
CompPass(c, at, cd, next) ==
  /\ ccalls[c].pc = at
  /\ competitorData' = cd
  /\ ccalls' = [ccalls EXCEPT ![c].pc = next, ![c].passes = @ + 1]
  /\ UNCHANGED <<cInit, lsComp, synth>>

CompStrategies(c) ==
  CompPass(c, "strategy", analyzeCompetitorStrategies(competitorData), "content")
CompContent(c) ==
  CompPass(c, "content", analyzeCompetitorContent(competitorData), "performance")
CompPerformance(c) ==
  CompPass(c, "performance", analyzeCompetitorPerformance(competitorData), "niche")
CompByNiche(c) ==
  CompPass(c, "niche", analyzeCompetitorsByNiche(competitorData), "save")

CompFinish(c) ==
  /\ ccalls[c].pc = "save"
  /\ lsComp' = ToJson(competitorData)
  /\ ccalls' = [ccalls EXCEPT ![c].pc = "done", ![c].result = "ok",
                              ![c].after = competitorData]
  /\ UNCHANGED <<competitorData, cInit, synth>>

\* updateCompetitor(id, updates): the profile under the id is replaced by
\* its shallow merge with the updates, and the whole structure is saved.
\* The updates have fields of a profile.
Merge(profile, updates) ==
  [f \in DOMAIN profile |->
     IF f \in DOMAIN updates \ {"key"} THEN updates[f] ELSE profile[f]]
updateCompetitor(cd, id, updates) ==
  [cd EXCEPT !.competitors =
     [i \in 1..Len(@) |-> IF @[i].key = id THEN Merge(@[i], updates) ELSE @[i]]]

\* removeCompetitor(id): delete this.competitorData.competitors[id].
removeCompetitor(cd, id) ==
  [cd EXCEPT !.competitors = SelectSeq(@, LAMBDA p : p.key # id)]

NoApiCall == [op |-> "none", id |-> NotFound, returned |-> FALSE, seq |-> 0]
ApiCall(op, id, returned) ==
  [op |-> op, id |-> id, returned |-> returned, seq |-> lastComp.seq + 1]

\* A call of updateCompetitor: for an id with no profile the throw is caught
\* and false is returned, before anything is assigned or saved.
UpdateCompetitorStep(id, updates) ==
  IF ~Tracked(competitorData, id)
  THEN /\ lastComp' = ApiCall("update", id, FALSE)
       /\ UNCHANGED <<competitorData, lsComp>>
  ELSE /\ competitorData' = updateCompetitor(competitorData, id, updates)
       /\ lsComp' = ToJson(updateCompetitor(competitorData, id, updates))
       /\ lastComp' = ApiCall("update", id, TRUE)

\* A removeCompetitor that deletes and saves without the test for the id.
RemoveCompetitorUnchecked(id) ==
  /\ competitorData' = removeCompetitor(competitorData, id)
  /\ lsComp' = ToJson(removeCompetitor(competitorData, id))
  /\ lastComp' = ApiCall("remove", id, TRUE)

RemoveCompetitorStep(id) ==
  IF ~Tracked(competitorData, id)
  THEN /\ lastComp' = ApiCall("remove", id, FALSE)
       /\ UNCHANGED <<competitorData, lsComp>>
  ELSE /\ competitorData' = removeCompetitor(competitorData, id)
       /\ lsComp' = ToJson(removeCompetitor(competitorData, id))
       /\ lastComp' = ApiCall("remove", id, TRUE)

CompInit0 ==
  /\ competitorData = EmptyCompetitorData
  /\ cInit = FALSE
  /\ lsComp = NoDoc
  /\ ccalls = [c \in CallIds |-> IdleCall]
  /\ lastComp = NoApiCall

-----------------------------------------------------------------------------
(* MarketingStrategyService.  An entry of a facet list carries the number   *)
(* of the generateStrategy call that pushed it.                              *)

EmptyStrategies ==
  [content |-> <<>>, platform |-> <<>>, product |-> <<>>, budget |-> <<>>,
   timeline |-> <<>>]

\* The options of a call after the merge with the defaults: the focus
\* niches and the budget, in cents.
DefaultBudget == 2000
Options(focusNiches, budget) == [focusNiches |-> focusNiches, budget |-> budget]
DefaultOptions == Options(PreferredNiches, DefaultBudget)

\* prioritizeNiches(topNiches, gapAnalysis, focusNiches): every focus niche
\* gets the baseline priority plus the weight of its trend popularity.  With
\* no competitor tracked every niche has the same opportunity level, whose
\* weight is part of the baseline.
BaselinePriority == 1
Priority(td, niche) ==
  BaselinePriority
  + (IF niche \in DOMAIN td.niches THEN td.niches[niche].popularity ELSE 0)
prioritizeNiches(td, focusNiches) ==
  [i \in 1..Len(focusNiches) |->
     [niche |-> focusNiches[i], priority |-> Priority(td, focusNiches[i])]]

\* prioritizedNiches.reduce((sum, niche) => sum + niche.priority, 0)
RECURSIVE TotalPriority(_)
TotalPriority(pn) ==
  IF pn = <<>> THEN 0 ELSE Head(pn).priority + TotalPriority(Tail(pn))

\* Math.round(x * 100) / 100 of x = num / den, in cents, for num >= 0.
RoundCents(num, den) == (2 * num + den) \div (2 * den)

\* budgetAllocation: (priority / totalPriority) * initialBudget, rounded.
budgetAllocation(pn, budget) ==
  [i \in 1..Len(pn) |->
     [niche |-> pn[i].niche,
      amount |-> RoundCents(pn[i].priority * budget, TotalPriority(pn))]]

\* A generateStrategy that keeps the previous lists instead of clearing them.
NotCleared(s) == s

\* The clear of generateStrategy.
Cleared(s) == EmptyStrategies

\* The five generators: each pushes onto its list.
generateContentStrategy(s, c, o, td) ==
  LET pn == prioritizeNiches(td, o.focusNiches)
  IN [s EXCEPT !.content =
        @ \o [i \in 1..Len(pn) |->
                [by |-> c, niche |-> pn[i].niche, priority |-> pn[i].priority]]]
generatePlatformStrategy(s, c, o) ==
  [s EXCEPT !.platform =
     @ \o [i \in 1..Len(o.focusNiches) |-> [by |-> c, niche |-> o.focusNiches[i]]]]
generateProductStrategy(s, c, o) ==
  [s EXCEPT !.product =
     @ \o [i \in 1..Len(o.focusNiches) |-> [by |-> c, niche |-> o.focusNiches[i]]]]
generateBudgetStrategy(s, c, o, td) ==
  LET pn == prioritizeNiches(td, o.focusNiches)
  IN [s EXCEPT !.budget =
        Append(@, [by |-> c, initialBudget |-> o.budget,
                   allocation |-> budgetAllocation(pn, o.budget)])]
generateTimelineStrategy(s, c) ==
  [s EXCEPT !.timeline = Append(@, [by |-> c])]

\* generateStrategy from the clear to the await of Promise.all: no
\* generator awaits, so all five have run when the call suspends.
Generated(s, c, o, td) ==
  generateTimelineStrategy(
    generateBudgetStrategy(
      generateProductStrategy(
        generatePlatformStrategy(
          generateContentStrategy(Cleared(s), c, o, td), c, o), c, o), c, o, td), c)

IdleStrategyCall ==
  [pc |-> "idle", options |-> DefaultOptions, returned |-> EmptyStrategies]

StratBuild(c, calls) ==
  /\ strategies' = Generated(strategies, c, calls[c].options, trendData)
  /\ scalls' = [calls EXCEPT ![c].pc = "built"]

\* generateStrategy(options) is called.  Not yet initialized, it calls
\* initialize(), which calls initialize() of both engines and awaits them.
StratStart(c, o) ==
  /\ MayStart(scalls, c)
  /\ IF ~sInit
     THEN /\ trendData' = Loaded(lsTrend, trendData)
          /\ tInit' = Initialized(lsTrend, tInit)
          /\ tcalls' = Reload(tcalls)
          /\ competitorData' = Loaded(lsComp, competitorData)
          /\ cInit' = Initialized(lsComp, cInit)
          /\ ccalls' = Reload(ccalls)
          /\ scalls' = [scalls EXCEPT ![c].pc = "init", ![c].options = o]
          /\ UNCHANGED <<strategies, sInit>>
     ELSE /\ StratBuild(c, [scalls EXCEPT ![c].options = o])
          /\ UNCHANGED <<sInit, trendData, tInit, tcalls, competitorData, cInit, ccalls>>

\* initialize() resumes after its await and sets initialized.
StratInitialized(c) ==
  /\ scalls[c].pc = "init"
  /\ sInit' = TRUE
  /\ scalls' = [scalls EXCEPT ![c].pc = "ready"]
  /\ UNCHANGED <<strategies, trendData, tInit, tcalls, competitorData, cInit, ccalls>>

\* generateStrategy resumes after await this.initialize().
StratAfterInit(c) ==
  /\ scalls[c].pc = "ready"
  /\ StratBuild(c, scalls)
  /\ UNCHANGED <<sInit, trendData, tInit, tcalls, competitorData, cInit, ccalls>>

\* generateStrategy resumes after Promise.all and returns this.strategies.
StratReturn(c) ==
  /\ scalls[c].pc = "built"
  /\ scalls' = [scalls EXCEPT ![c].pc = "done", ![c].returned = strategies]
  /\ UNCHANGED <<strategies, sInit, trendData, tInit, tcalls, competitorData, cInit, ccalls>>

StratInit0 ==
  /\ strategies = EmptyStrategies
  /\ sInit = FALSE
  /\ scalls = [c \in CallIds |-> IdleStrategyCall]

-----------------------------------------------------------------------------
(* ScraperService: the task list and the calls that execute tasks. *)

NoError == "null"

SocialMedia       == {"twitter", "pinterest", "tiktok"}
AffiliateNetworks == {"amazon", "clickbank", "shareasale"}

\* The source is one the service scrapes; any other makes executeTask throw.
Supported(source) ==
  source \in SocialMedia \cup AffiliateNetworks \/ source = "custom"

\* What the simulated scrape of a source resolves to.
ScrapeResult(source) ==
  IF source = "twitter" THEN PTwitter
  ELSE IF source = "amazon" THEN PAmazon
  ELSE Payload(source, "ai", TRUE, <<>>)

\* addTask: the new task is pending, with no result and no error.  The id is
\* unique (time and random suffix): the position in the list.  runs counts
\* the scrapes started for the task.
NewTask(id, source) ==
  [id |-> id, source |-> source, status |-> "pending",
   result |-> NullPayload, error |-> NoError, runs |-> 0]

addTask(source) ==
  /\ scrapingTasks' = Append(scrapingTasks, NewTask(Len(scrapingTasks) + 1, source))
  /\ UNCHANGED <<scrapingResults, xcalls>>

\* getTask(taskId): the task exists.
HasTask(tasks, id) == id \in 1..Len(tasks)

PendingTasks(tasks) ==
  SelectSeq([i \in 1..Len(tasks) |-> i], LAMBDA i : tasks[i].status = "pending")

IdleTaskCall ==
  [pc |-> "idle", kind |-> "none", queue |-> <<>>, settled |-> <<>>, threw |-> FALSE,
   overlapped |-> FALSE]

\* A call enters while other calls await their scrapes: they overlap.
TaskEnter(calls, c) ==
  LET waiting == {d \in CallIds \ {c} : calls[d].pc = "scrape"}
  IN [d \in CallIds |->
        IF d = c THEN [calls[d] EXCEPT !.overlapped = waiting # {}]
        ELSE IF d \in waiting THEN [calls[d] EXCEPT !.overlapped = TRUE]
        ELSE calls[d]]

\* executeTask up to its await of the scrape: the task is running and the
\* scrape has started.
Running(tasks, id) ==
  [tasks EXCEPT ![id].status = "running", ![id].runs = @ + 1]

\* executeTask of a task whose source is not supported: the throw inside the
\* try block is caught, the task is failed with the message, and the error
\* is thrown again.
Failed(tasks, id) ==
  [tasks EXCEPT ![id].status = "failed", ![id].error = "Unsupported source"]

\* executeTask after its await of the scrape, with the task left running.
CompleteUnmarked(tasks, id) ==
  [tasks EXCEPT ![id].result = ScrapeResult(tasks[id].source)]

\* executeTask after its await of the scrape: the task is completed with
\* the result.
Complete(tasks, id) ==
  [tasks EXCEPT ![id].status = "completed",
                ![id].result = ScrapeResult(tasks[id].source)]

\* The loop of executeAllPendingTasks from one executeTask call to the next
\* await of a scrape: a task that fails at once is recorded and the loop
\* goes on.  A single executeTask is a queue of one task.
RECURSIVE RunQueue(_, _, _)
RunQueue(tasks, queue, settled) ==
  IF queue = <<>> THEN [tasks |-> tasks, queue |-> queue, settled |-> settled]
  ELSE LET id == Head(queue)
       IN IF Supported(tasks[id].source)
          THEN [tasks |-> Running(tasks, id), queue |-> queue, settled |-> settled]
          ELSE RunQueue(Failed(tasks, id), Tail(queue), Append(settled, id))

Proceed(c, calls, kind, r, threw) ==
  /\ scrapingTasks' = r.tasks
  /\ xcalls' = [calls EXCEPT
                  ![c].pc = IF r.queue = <<>> THEN "done" ELSE "scrape",
                  ![c].kind = kind,
                  ![c].queue = r.queue,
                  ![c].settled = r.settled,
                  ![c].threw = threw]

\* executeTask(taskId) is called.
executeTask(c, id) ==
  /\ MayStart(xcalls, c)
  /\ IF ~HasTask(scrapingTasks, id)
     THEN /\ xcalls' = [TaskEnter(xcalls, c) EXCEPT ![c].pc = "done", ![c].kind = "one",
                                                     ![c].threw = TRUE]
          /\ UNCHANGED scrapingTasks
     ELSE LET r == RunQueue(scrapingTasks, <<id>>, <<>>)
          IN Proceed(c, TaskEnter(xcalls, c), "one", r, r.queue = <<>>)
  /\ UNCHANGED scrapingResults

\* executeAllPendingTasks() is called: the pending tasks are listed once.
executeAllPendingTasks(c) ==
  /\ MayStart(xcalls, c)
  /\ Proceed(c, TaskEnter(xcalls, c), "all",
             RunQueue(scrapingTasks, PendingTasks(scrapingTasks), <<>>), FALSE)
  /\ UNCHANGED scrapingResults

\* The scrape a call awaits resolves: executeTask completes the task and
\* stores the result; executeAllPendingTasks goes on with its list.
ScrapeResolves(c) ==
  /\ xcalls[c].pc = "scrape"
  /\ LET id == Head(xcalls[c].queue)
         r  == RunQueue(Complete(scrapingTasks, id), Tail(xcalls[c].queue),
                        Append(xcalls[c].settled, id))
     IN /\ Proceed(c, xcalls, xcalls[c].kind, r, FALSE)
        /\ scrapingResults' = Append(scrapingResults, id)

ScraperInit0 ==
  /\ scrapingTasks = <<>>
  /\ scrapingResults = <<>>
  /\ xcalls = [c \in CallIds |-> IdleTaskCall]

-----------------------------------------------------------------------------
(* The competitive gap analysis: the opportunity level of a niche from its  *)
(* competitor count and two fixed cutoffs.                                  *)

\* opportunityLevel with the two ends exchanged.
opportunityLevelSwapped(count, low, high) ==
  IF count < low THEN "low" ELSE IF count > high THEN "high" ELSE "medium"

\* High below the low cutoff, low above the high cutoff, else medium.
opportunityLevel(count, low, high) ==
  IF count < low THEN "high" ELSE IF count > high THEN "low" ELSE "medium"

NoGap == [low |-> 0, high |-> 0, analyses |-> <<>>]

\* getCompetitiveGapAnalysis() for a niche with this many competitors.
getCompetitiveGapAnalysis(count) ==
  gap' = [gap EXCEPT !.analyses =
            Append(@, [competitorCount |-> count,
                       opportunityLevel |-> opportunityLevel(count, gap.low, gap.high)])]

GapInit0 == gap = NoGap

-----------------------------------------------------------------------------
(* The stores the engines are analysed over: every sequence of at most      *)
(* MaxRecords payloads, each stored by storeData under its platform (as     *)
(* the scraper page stores a task's result) at a tick of its own.           *)

RECURSIVE StoreAll(_, _, _)
StoreAll(st, payloads, t) ==
  IF payloads = <<>> THEN st
  ELSE LET p   == Head(payloads)
           cat == IF Truthy(p.platform) THEN p.platform ELSE "websites"
       IN StoreAll(storeDataFn(st, cat, cat, p, t, DateOf(t)), Tail(payloads), t + 1)

EmptyStore == StoreOf(EmptyData, CtorCategories, EmptyIndexes, NoDoc)

SeqsUpTo(S, n) == UNION {[1..k -> S] : k \in 0..n}

StoreHolds(payloads) ==
  LET st == StoreAll(EmptyStore, payloads, 1)
  IN /\ data = st.data
     /\ catOrder = st.catOrder
     /\ indexes = st.indexes
     /\ lsStore = st.ls
     /\ clock = Len(payloads) + 1
     /\ lastStore = NoStore


-----------------------------------------------------------------------------
(* The record store on its own. *)

StoreInputs == {<<"twitter", "twitter">>, <<"amazon", "amazon">>}
StorePayloads == {PTwitter, PAmazon, PNumQuery, NullPayload}

IndexSize(ix) == Len(Flatten([i \in 1..Len(ix) |-> ix[i][2]]))

StoreDataStep ==
  \E cs \in StoreInputs, p \in StorePayloads, later \in {0, 1} :
    /\ IndexSize(indexes.byDate) < MaxRecords
    /\ storeData(cs[1], cs[2], p, later)

DeleteDataStep == \E id \in StoredIds(data) : deleteData(id)

StoreFrame == UNCHANGED <<trendVars, compVars, lastComp, stratVars, synth, scraperVars, gap>>

StoreNext ==
  \/ Tick /\ StoreFrame
  \/ StoreDataStep /\ StoreFrame
  \/ DeleteDataStep /\ StoreFrame
  \/ clearAllData /\ StoreFrame

InitStore == StoreInit /\ TrendInit0 /\ CompInit0 /\ StratInit0 /\ ScraperInit0 /\ GapInit0

SpecStore == InitStore /\ [][StoreNext]_vars

-----------------------------------------------------------------------------
(* The trend engine over a fixed store. *)

TrendPayloads == {PTwitterUp, PAmazon, PNoId, PNumQuery}

TrendFrame == UNCHANGED <<storeVars, compVars, lastComp, stratVars, scraperVars, gap>>

TrendNext ==
  \/ TrendInitialize /\ TrendFrame
  \/ \E c \in CallIds : TrendStart(c) /\ TrendFrame
  \/ \E c \in CallIds : TrendAfterInit(c) /\ TrendFrame
  \/ \E c \in CallIds : TrendKeyword(c) /\ TrendFrame
  \/ \E c \in CallIds : TrendProduct(c) /\ TrendFrame
  \/ \E c \in CallIds : TrendTimeframe(c) /\ TrendFrame
  \/ \E c \in CallIds : TrendFinish(c) /\ TrendFrame

InitTrend ==
  /\ \E ps \in SeqsUpTo(TrendPayloads, MaxRecords) : StoreHolds(ps)
  /\ TrendInit0 /\ CompInit0 /\ StratInit0 /\ ScraperInit0 /\ GapInit0

SpecTrend == InitTrend /\ [][TrendNext]_vars

-----------------------------------------------------------------------------
(* The competitor engine over a fixed store. *)

CompPayloads == {PTwitter, PTwitterOne, PPinterest, PTikTok, PAmazon}

CompFrame == UNCHANGED <<storeVars, trendVars, lastComp, stratVars, scraperVars, gap>>

CompNext ==
  \/ CompInitialize /\ CompFrame
  \/ \E c \in CallIds : CompStart(c) /\ CompFrame
  \/ \E c \in CallIds : CompAfterInit(c) /\ CompFrame
  \/ \E c \in CallIds : CompStrategies(c) /\ CompFrame
  \/ \E c \in CallIds : CompContent(c) /\ CompFrame
  \/ \E c \in CallIds : CompPerformance(c) /\ CompFrame
  \/ \E c \in CallIds : CompByNiche(c) /\ CompFrame
  \/ \E c \in CallIds : CompFinish(c) /\ CompFrame

InitComp ==
  /\ \E ps \in SeqsUpTo(CompPayloads, MaxRecords) : StoreHolds(ps)
  /\ TrendInit0 /\ CompInit0 /\ StratInit0 /\ ScraperInit0 /\ GapInit0

SpecComp == InitComp /\ [][CompNext]_vars

-----------------------------------------------------------------------------
(* Properties of the competitor engine. *)

Profiles == competitorData.competitors

SameActor(p, q) == p.platform = q.platform /\ p.name = q.name

\* C1: identifying competitors again over the same record never leaves two
\* profiles for one actor: over a store of one record, whatever number of
\* analysis passes has run, no two tracked profiles have the same platform
\* and the same actor.
C1_OneProfilePerActor ==
  Len(searchData) = 1 =>
    \A i, k \in 1..Len(Profiles) : SameActor(Profiles[i], Profiles[k]) => i = k

\* The case of C1: two passes have finished over a store of one social
\* record that names a competitor.
C1_TwoPassesOneRecord ==
  /\ Len(searchData) = 1
  /\ \A c \in {1, 2} : ccalls[c].result = "ok"
  /\ Len(Profiles) > 0

-----------------------------------------------------------------------------
(* Properties of the analysis calls.  Calls start in the order of their     *)
(* numbers, so of two calls the one with the smaller number is the first.   *)

Guarded(calls) ==
  \A c, d \in CallIds :
    (c < d /\ InFlight(calls, c)) => calls[d].passes = 0

\* C2: each engine has a reentrancy guard: while an analyzeAllData call is
\* in flight, a call of the same engine that started after it has run none
\* of its sub-passes.
C2_SecondCallWaits == Guarded(tcalls) /\ Guarded(ccalls)

\* The case of C2: the second call of the trend engine has run a sub-pass
\* while the first is still in flight.
C2_SecondCallRan == InFlight(tcalls, 1) /\ tcalls[2].passes > 0

\* Call c ran after call d had finished, both alone and to their end: no
\* other call overlapped either, no initialize() reloaded the state under
\* them, and no sub-pass threw.
Alone(calls, c) ==
  /\ calls[c].result = "ok"
  /\ ~calls[c].overlapped /\ ~calls[c].reloaded
  /\ calls[c].threw = {}
Reanalysis(calls, d, c) ==
  /\ Alone(calls, d) /\ Alone(calls, c)
  /\ d \in calls[c].prevDone

-----------------------------------------------------------------------------
(* Properties of the trend engine. *)

ProfileCounts(p) == <<p.mentions, p.sentiment, p.relatedKeywords>>

\* The fields of td1 that re-analysis must leave alone are the same in td2.
SameCounts(td1, td2) ==
  /\ \A k \in DOMAIN td1.keywords :
       /\ k \in DOMAIN td2.keywords
       /\ ProfileCounts(td2.keywords[k]) = ProfileCounts(td1.keywords[k])
  /\ \A k \in DOMAIN td1.products :
       /\ k \in DOMAIN td2.products
       /\ ProfileCounts(td2.products[k]) = ProfileCounts(td1.products[k])
  /\ \A k \in DOMAIN td1.niches :
       /\ k \in DOMAIN td2.niches
       /\ td2.niches[k].popularity = td1.niches[k].popularity

ContentCounts(cd) == [i \in 1..Len(cd.competitors) |-> Len(cd.competitors[i].content)]

\* C3: analyzeAllData called again over the unchanged store leaves every
\* keyword's and product's mentions, sentiment and relatedKeywords, every
\* niche's popularity and every tracked competitor's content count as the
\* first call left them.
C3_ReanalysisIdempotent ==
  /\ \A c, d \in CallIds :
       Reanalysis(tcalls, d, c) => SameCounts(tcalls[d].after, tcalls[c].after)
  /\ \A c, d \in CallIds :
       Reanalysis(ccalls, d, c) =>
         \A i \in 1..Len(ccalls[d].after.competitors) :
           ContentCounts(ccalls[c].after)[i] = ContentCounts(ccalls[d].after)[i]

\* The case of C3: a second analysis has finished over the store the first
\* one analysed, and the first one counted something.
C3_Reanalysed ==
  /\ Reanalysis(tcalls, 1, 2)
  /\ \E k \in DOMAIN tcalls[1].after.keywords : tcalls[1].after.keywords[k].mentions > 0

\* A record the trend passes can process: it has results and a query that
\* is a string.
WellFormed(rec) == ~Skipped(rec) /\ Truthy(rec.data.query) /\ IsString(rec.data.query)

Malformed(rec) == ~Skipped(rec) /\ ~IsString(QueryOrEmpty(rec))

Contributed(td, rec) ==
  /\ Lower(rec.data.query) \in DOMAIN td.keywords
  /\ \A k \in SeqToSet(PreferredNiches) :
       MatchesNiche(k, rec.data.query, rec.data.results) =>
         (k \in DOMAIN td.niches /\ td.niches[k].popularity > 0)

\* A call that ran to its end with no other call and no reload in its way.
RanAlone(calls, c) ==
  calls[c].result = "ok" /\ ~calls[c].overlapped /\ ~calls[c].reloaded

\* C4: a malformed record is skipped and the pass goes on: after a call of
\* analyzeAllData, every well-formed record of its snapshot, before or after
\* a malformed one, has contributed its keyword's mentions and its niches'
\* popularity.
C4_OthersContribute ==
  \A c \in CallIds :
    RanAlone(tcalls, c) =>
      \A i \in 1..Len(tcalls[c].allData) :
        WellFormed(tcalls[c].allData[i]) => Contributed(tcalls[c].after, tcalls[c].allData[i])

\* The case of C4: a call has finished over a snapshot with a malformed
\* record followed by a well-formed one.
C4_MalformedThenGood ==
  \E c \in CallIds :
    /\ RanAlone(tcalls, c)
    /\ Len(tcalls[c].allData) = 2
    /\ Malformed(tcalls[c].allData[1])
    /\ WellFormed(tcalls[c].allData[2])

\* What a derived state counts: the keyword and product profiles and the
\* niches that have any popularity (a niche entry that counts nothing is as
\* good as absent).
Counted(td) ==
  [keywords |-> td.keywords, products |-> td.products,
   niches |-> [k \in Popular(td.niches) |-> td.niches[k]]]

\* C5: a failed call leaves the previously valid derived state: when a
\* sub-pass of an analyzeAllData call raised an error, what the derived
\* state counts after the call is what it counted before the call.
C5_FailedCallLeavesState ==
  \A c \in CallIds :
    (RanAlone(tcalls, c) /\ tcalls[c].threw # {}) =>
      Counted(tcalls[c].after) = Counted(tcalls[c].before)

\* The case of C5: a call in which a sub-pass threw has returned.
C5_FailedCall == \E c \in CallIds : RanAlone(tcalls, c) /\ tcalls[c].threw # {}

-----------------------------------------------------------------------------
(* The strategy generator, on a page load after an earlier session: the     *)
(* store is empty or holds one record, and the trend document is the one an *)
(* analysis of that store saved.                                            *)

\* The derived state one analyzeAllData call leaves, starting from none.
AnalysedOnce(recs) ==
  LET j  == [k \in SeqToSet(PreferredNiches) |-> 9]
      a  == analyzeByNiche(EmptyTrendData, recs, 0, j)
      b  == analyzeByKeyword(a.td, recs)
      p  == analyzeByProduct(b.td, recs, a.n)
  IN p.td

OddBudget == DefaultBudget + 2

StratOptions ==
  {DefaultOptions,
   Options(PreferredNiches, OddBudget),
   Options(<<"DIY & Home Improvement", "AI & Automation Tools">>, DefaultBudget)}

StratPayloads == {PAmazon, PTwitterUp}

StratFrame == UNCHANGED <<storeVars, lsTrend, lsComp, lastComp, synth, scraperVars, gap>>

StratNext ==
  \/ \E c \in CallIds, o \in StratOptions : StratStart(c, o) /\ StratFrame
  \/ \E c \in CallIds : StratInitialized(c) /\ StratFrame
  \/ \E c \in CallIds : StratAfterInit(c) /\ StratFrame
  \/ \E c \in CallIds : StratReturn(c) /\ StratFrame

InitStrat ==
  /\ \E ps \in SeqsUpTo(StratPayloads, 1) :
       /\ StoreHolds(ps)
       /\ lsTrend = IF ps = <<>> THEN NoDoc ELSE ToJson(AnalysedOnce(searchData))
  /\ trendData = EmptyTrendData
  /\ tInit = FALSE
  /\ tcalls = [c \in CallIds |-> IdleCall]
  /\ synth = 0
  /\ CompInit0 /\ StratInit0 /\ ScraperInit0 /\ GapInit0

SpecStrat == InitStrat /\ [][StratNext]_vars

-----------------------------------------------------------------------------
(* Properties of the strategy generator. *)

RECURSIVE TotalAmount(_)
TotalAmount(allocation) ==
  IF allocation = <<>> THEN 0
  ELSE Head(allocation).amount + TotalAmount(Tail(allocation))

Distance(a, b) == IF a >= b THEN a - b ELSE b - a

\* C6: the allocations of the budget facet sum to the budget within one
\* cent, for any non-empty focus niches and any budget.
C6_AllocationsSumToBudget ==
  \A i \in 1..Len(strategies.budget) :
    strategies.budget[i].allocation # <<>> =>
      Distance(TotalAmount(strategies.budget[i].allocation),
               strategies.budget[i].initialBudget) <= 1

\* The case of C6: a budget entry was built for five focus niches.
C6_BudgetBuilt ==
  /\ Len(strategies.budget) = 1
  /\ Len(strategies.budget[1].allocation) = Len(PreferredNiches)

NichesOf(list) == [i \in 1..Len(list) |-> list[i].niche]
BuiltBy(list, c) == \A i \in 1..Len(list) : list[i].by = c

\* The five lists are what call c alone built.
ListsOf(s, c) ==
  LET focus == scalls[c].options.focusNiches
  IN /\ BuiltBy(s.content, c) /\ BuiltBy(s.platform, c) /\ BuiltBy(s.product, c)
     /\ BuiltBy(s.budget, c) /\ BuiltBy(s.timeline, c)
     /\ Len(s.budget) = 1 /\ Len(s.timeline) = 1
     /\ s.budget[1].initialBudget = scalls[c].options.budget
     /\ NichesOf(s.platform) = focus
     /\ NichesOf(s.product) = focus

HasBuilt(c) == scalls[c].pc \in {"built", "done"}

\* C7: every generateStrategy call replaces the five facet lists: once a
\* call has built, the lists hold the entries of one single call that has
\* built, one budget and one timeline entry and one platform and one product
\* entry per focus niche of that call, whether calls overlap or not.
C7_ListsOfOneCall ==
  IF \E c \in CallIds : HasBuilt(c)
  THEN \E c \in CallIds : HasBuilt(c) /\ ListsOf(strategies, c)
  ELSE strategies = EmptyStrategies

\* The case of C7: two overlapping calls with different options have both
\* built, the second while the first had not returned.
C7_TwoCallsBuilt ==
  /\ scalls[1].pc = "built" /\ scalls[2].pc = "built"
  /\ scalls[1].options # scalls[2].options

-----------------------------------------------------------------------------
(* Properties of persistence. *)

Quiescent(calls) == \A c \in CallIds : ~InFlight(calls, c)
Completed(calls) == {c \in CallIds : calls[c].result = "ok"}

\* The document holds the state.
Holds(doc, state) == ~doc.absent /\ FromJson(doc) = state

\* Every count of trend state td1 is in td2, and is no smaller there.
TrendKeeps(td2, td1) ==
  /\ \A k \in DOMAIN td1.keywords :
       k \in DOMAIN td2.keywords /\ td2.keywords[k].mentions >= td1.keywords[k].mentions
  /\ \A k \in DOMAIN td1.products :
       k \in DOMAIN td2.products /\ td2.products[k].mentions >= td1.products[k].mentions
  /\ \A k \in DOMAIN td1.niches :
       k \in DOMAIN td2.niches /\ td2.niches[k].popularity >= td1.niches[k].popularity

\* Every profile of competitor state cd1 is in cd2, with no less content.
CompKeeps(cd2, cd1) ==
  \A i \in 1..Len(cd1.competitors) :
    /\ i <= Len(cd2.competitors)
    /\ cd2.competitors[i].id = cd1.competitors[i].id
    /\ Len(cd2.competitors[i].content) >= Len(cd1.competitors[i].content)

-----------------------------------------------------------------------------
(* Properties of the record store. *)

RecordsOf(d) == UNION {SeqToSet(d[c]) : c \in Categories}

\* C9: records are uniquely identified and immutable once stored: a step
\* that deletes nothing (a storeData call) leaves every stored record in
\* the store as it was, so the record the call adds is distinct from all of
\* them.
C9_RecordsImmutable ==
  [][StoredIds(data) \subseteq StoredIds(data') => RecordsOf(data) \subseteq RecordsOf(data')]_vars

\* The case of C9: storeData has returned an id with a record already in
\* the store.
C9_SecondStore ==
  /\ lastStore.returned = "id"
  /\ Cardinality(StoredIds(data)) = MaxRecords

-----------------------------------------------------------------------------
(* Properties of product extraction. *)

ProfileCount(td) == Cardinality(DOMAIN td.products)

\* C10: re-analysis merges products into the profile keyed by their id,
\* supplied or synthesized: analyzeAllData called again over the unchanged
\* store leaves the number of product profiles, and the number of products
\* listed under every niche, no larger than the first call left them.
C10_ProductsMerge ==
  \A c, d \in CallIds :
    Reanalysis(tcalls, d, c) =>
      /\ ProfileCount(tcalls[c].after) <= ProfileCount(tcalls[d].after)
      /\ \A k \in DOMAIN tcalls[d].after.niches :
           Len(tcalls[c].after.niches[k].products)
             <= Len(tcalls[d].after.niches[k].products)

\* The case of C10: a store with a product that has no id of its own has
\* been analysed twice.
C10_SynthesizedTwice ==
  /\ Reanalysis(tcalls, 1, 2)
  /\ \E id \in DOMAIN tcalls[1].after.products : id.from = "synth"

-----------------------------------------------------------------------------
(* Properties of competitor identification. *)

\* A snapshot of exactly one Twitter record with one result item, whose
\* author has 5000 followers and whose text holds the keyword "ai".
OneAiTweet(recs) ==
  /\ Len(recs) = 1
  /\ recs[1].source = "twitter"
  /\ ~Skipped(recs[1])
  /\ Len(recs[1].data.results) = 1
  /\ LET tweet == recs[1].data.results[1]
     IN tweet.hasActor /\ tweet.audience = 5000 /\ "ai" \in SeqToSet(tweet.words)

\* C11: over a store of exactly one Twitter record with one result item
\* whose author has 5000 followers and whose text matches the keyword "ai",
\* an analyzeAllData call on an engine with no competitor leaves exactly one
\* profile, of platform "twitter" and niche "AI & Automation Tools".
C11_OneTwitterProfile ==
  \A c \in CallIds :
    (/\ RanAlone(ccalls, c)
     /\ OneAiTweet(ccalls[c].allData)
     /\ ccalls[c].before.competitors = <<>>) =>
      LET ps == ccalls[c].after.competitors
      IN /\ Len(ps) = 1
         /\ ps[1].platform = "twitter"
         /\ ps[1].niche = "AI & Automation Tools"

\* The case of C11: a call has analysed that store alone, from no competitor.
C11_OneTweetAnalysed ==
  \E c \in CallIds :
    /\ RanAlone(ccalls, c)
    /\ OneAiTweet(ccalls[c].allData)
    /\ ccalls[c].before.competitors = <<>>

-----------------------------------------------------------------------------
(* Properties of niche popularity. *)

\* The records of a snapshot that have results and whose query or serialized
\* results hold a keyword of the niche.
Matching(recs, niche) ==
  {i \in 1..Len(recs) :
     /\ ~Skipped(recs[i])
     /\ \E kw \in getNicheKeywords(niche) :
          \/ IsString(QueryOrEmpty(recs[i])) /\ Lower(QueryOrEmpty(recs[i])) = kw
          \/ kw \in SeqToSet(Serialized(recs[i].data.results))}

FromEmpty(calls, c) == RanAlone(calls, c) /\ calls[c].before = EmptyTrendData

\* C12: popularity is a match counter: after one analyzeAllData pass that
\* started from the empty derived state, the popularity of every configured
\* niche is the number of stored records with results whose query or
\* serialized results hold one of the niche's keywords.
C12_PopularityCounts ==
  \A c \in CallIds :
    FromEmpty(tcalls, c) =>
      \A i \in 1..Len(PreferredNiches) :
        LET k == PreferredNiches[i]
        IN /\ k \in DOMAIN tcalls[c].after.niches
           /\ tcalls[c].after.niches[k].popularity
                = Cardinality(Matching(tcalls[c].allData, k))

\* The case of C12: a pass from the empty derived state has run over a
\* store with a record that matches a niche and whose query is no string.
C12_CountedMalformed ==
  \E c \in CallIds :
    /\ FromEmpty(tcalls, c)
    /\ \E i \in 1..Len(tcalls[c].allData) :
         /\ Malformed(tcalls[c].allData[i])
         /\ i \in Matching(tcalls[c].allData, "DIY & Home Improvement")

-----------------------------------------------------------------------------
(* The trend engine over a store that the scraper fills, and that the user  *)
(* may clear, between the analysis calls.                                   *)

GrowPayloads == {PTwitterUp, PAmazon}

Between == \A c \in CallIds : ~InFlight(tcalls, c)

GrowStoreStep ==
  \E p \in GrowPayloads :
    /\ Between
    /\ IndexSize(indexes.byDate) < MaxRecords
    /\ storeData(p.platform, p.platform, p, 0)

GrowClearStep == Between /\ clearAllData

GrowNext ==
  \/ GrowStoreStep /\ StoreFrame
  \/ GrowClearStep /\ StoreFrame
  \/ TrendInitialize /\ TrendFrame
  \/ \E c \in CallIds : TrendStart(c) /\ TrendFrame
  \/ \E c \in CallIds : TrendAfterInit(c) /\ TrendFrame
  \/ \E c \in CallIds : TrendKeyword(c) /\ TrendFrame
  \/ \E c \in CallIds : TrendProduct(c) /\ TrendFrame
  \/ \E c \in CallIds : TrendTimeframe(c) /\ TrendFrame
  \/ \E c \in CallIds : TrendFinish(c) /\ TrendFrame

InitGrow == StoreInit /\ TrendInit0 /\ CompInit0 /\ StratInit0 /\ ScraperInit0 /\ GapInit0

SpecGrow == InitGrow /\ [][GrowNext]_vars

-----------------------------------------------------------------------------
(* Properties of niche popularity over passes. *)

Grown(calls, d, c) ==
  /\ d \in calls[c].prevDone
  /\ Done(calls, c)
  /\ SeqToSet(calls[d].allData) \subseteq SeqToSet(calls[c].allData)

-----------------------------------------------------------------------------
(* One analysis call over a store of one record whose result is a product   *)
(* with a text of up to MaxWords words.                                     *)

MaxWords == 3
SentimentWords == {"good", "bad", "plain"}

Review(words) ==
  Payload("amazon", "diy", TRUE,
          <<Item("product", "B01", "Review", words, NoValue, NoValue, 0, NoValue)>>)

SentimentNext ==
  \/ TrendInitialize /\ TrendFrame
  \/ TrendStart(1) /\ TrendFrame
  \/ TrendAfterInit(1) /\ TrendFrame
  \/ TrendKeyword(1) /\ TrendFrame
  \/ TrendProduct(1) /\ TrendFrame
  \/ TrendTimeframe(1) /\ TrendFrame
  \/ TrendFinish(1) /\ TrendFrame

InitSentiment ==
  /\ \E words \in SeqsUpTo(SentimentWords, MaxWords) : StoreHolds(<<Review(words)>>)
  /\ TrendInit0 /\ CompInit0 /\ StratInit0 /\ ScraperInit0 /\ GapInit0

SpecSentiment == InitSentiment /\ [][SentimentNext]_vars

-----------------------------------------------------------------------------
(* Properties of the sentiment score, in hundredths. *)

Occurrences(results, words) ==
  Cardinality({ij \in (1..Len(results)) \X (1..MaxWords + 1) :
                 /\ ij[2] <= Len(results[ij[1]].words)
                 /\ results[ij[1]].words[ij[2]] \in words})

\* The score s is the quotient (pos - neg) / (pos + neg) rounded to
\* hundredths, and 0 when no word matched.
IsScore(s, pos, neg) ==
  /\ s \in -100..100
  /\ pos + neg = 0 => s = 0
  /\ pos + neg > 0 =>
       LET off == s * (pos + neg) - 100 * (pos - neg)
       IN 2 * off <= pos + neg /\ -2 * off <= pos + neg

\* C14: the sentiment score is (pos - neg) / (pos + neg) over the counts of
\* matched positive and negative words, always within [-1, 1] and exactly 0
\* when no word matches; every stored keyword profile and product profile
\* has a sentiment within [-1, 1].
C14_SentimentInRange ==
  /\ \A i \in 1..Len(searchData) :
       LET results == searchData[i].data.results
       IN IsScore(calculateSentiment(results),
                  Occurrences(results, positiveWords),
                  Occurrences(results, negativeWords))
  /\ \A q \in DOMAIN trendData.keywords : trendData.keywords[q].sentiment \in -100..100
  /\ \A id \in DOMAIN trendData.products : trendData.products[id].sentiment \in -100..100

\* The case of C14: a stored product profile has a sentiment that is none of
\* -1, 0 and 1: the text had positive and negative words in unequal number.
C14_MixedSentiment ==
  \E id \in DOMAIN trendData.products :
    trendData.products[id].sentiment \notin {-100, 0, 100}

-----------------------------------------------------------------------------
(* Properties of an analysis over the empty store. *)

\* The step in which call c returns the result for the empty store.
ReturnsEmpty(calls, after, c) ==
  calls[c].result # "empty" /\ after[c].result = "empty"

\* The step in which call c gets past its test of the store.
Begins(calls, after, c) ==
  calls[c].pc \in {"idle", "init"} /\ after[c].pc \notin {"idle", "init"}

\* The step in which call c runs the initialize() it triggers.
Initializes(calls, after, c) ==
  calls[c].pc = "idle" /\ after[c].pc = "init"

-----------------------------------------------------------------------------
(* The competitor engine with the calls of its profile API between the     *)
(* steps of its analysis calls.                                             *)

MaxId == 2
MaxApiCalls == 2
ApiPayloads == {PTwitter, PPinterest}
ApiUpdates == {[niche |-> "unclassified"]}

ApiFrame == UNCHANGED <<storeVars, trendVars, stratVars, cInit, ccalls, synth, scraperVars, gap>>

UpdateCompetitorApi(id, u) == lastComp.seq < MaxApiCalls /\ UpdateCompetitorStep(id, u)
RemoveCompetitorApi(id) == lastComp.seq < MaxApiCalls /\ RemoveCompetitorStep(id)

ApiNext ==
  \/ \E id \in 1..MaxId, u \in ApiUpdates : UpdateCompetitorApi(id, u) /\ ApiFrame
  \/ \E id \in 1..MaxId : RemoveCompetitorApi(id) /\ ApiFrame
  \/ \E c \in CallIds : CompStart(c) /\ CompFrame
  \/ \E c \in CallIds : CompAfterInit(c) /\ CompFrame
  \/ \E c \in CallIds : CompStrategies(c) /\ CompFrame
  \/ \E c \in CallIds : CompContent(c) /\ CompFrame
  \/ \E c \in CallIds : CompPerformance(c) /\ CompFrame
  \/ \E c \in CallIds : CompByNiche(c) /\ CompFrame
  \/ \E c \in CallIds : CompFinish(c) /\ CompFrame

InitApi ==
  /\ \E p \in ApiPayloads : StoreHolds(<<p>>)
  /\ TrendInit0 /\ CompInit0 /\ StratInit0 /\ ScraperInit0 /\ GapInit0

SpecApi == InitApi /\ [][ApiNext]_vars

-----------------------------------------------------------------------------
(* Properties of the profile API. *)

\* C16: updateCompetitor and removeCompetitor called with an id that is not
\* tracked return the failure result to the caller and leave every profile
\* and the persisted competitor document as they are.
C16_UntrackedIdNoEffect ==
  [][(lastComp' # lastComp /\ ~Tracked(competitorData, lastComp'.id)) =>
       /\ lastComp'.returned = FALSE
       /\ competitorData' = competitorData
       /\ lsComp' = lsComp]_vars

\* The case of C16: removeCompetitor has returned the failure result on an
\* engine that tracks a profile, under another id.
C16_UntrackedRemoved ==
  /\ lastComp.op = "remove"
  /\ ~lastComp.returned
  /\ Len(Profiles) > 0
  /\ Holds(lsComp, competitorData)

-----------------------------------------------------------------------------
(* The trend engine started over a persisted document that is absent, that  *)
(* JSON.parse throws on, or that parses to an object without the engine's   *)
(* maps.                                                                    *)

RecoverDocs == {NoDoc, Unparsable, ToJson(OtherObject)}
RecoverPayloads == {PAmazon, PTwitterUp}

InitRecover ==
  /\ \E p \in RecoverPayloads : StoreHolds(<<p>>)
  /\ trendData = EmptyTrendData
  /\ tInit = FALSE
  /\ lsTrend \in RecoverDocs
  /\ tcalls = [c \in CallIds |-> IdleCall]
  /\ synth = 0
  /\ CompInit0 /\ StratInit0 /\ ScraperInit0 /\ GapInit0

SpecRecover == InitRecover /\ [][TrendNext]_vars

-----------------------------------------------------------------------------
(* Properties of initialization. *)

Shaped(td) == \A map \in {"niches", "keywords", "products"} : HasMap(td, map)

\* C17: when the persisted state is absent or corrupt, initialization falls
\* back to the empty structure: the in-memory state always has all its
\* top-level maps, and an analysis call that runs afterwards over well-formed
\* records succeeds, none of its sub-passes failing.
C17_InitializedWellFormed ==
  /\ Shaped(trendData)
  /\ \A c \in CallIds : Done(tcalls, c) => tcalls[c].threw = {}

\* The case of C17: an analysis call has run to its end on an engine whose
\* persisted document was corrupt, and a sub-pass of it failed.
C17_AnalysedAfterCorrupt ==
  \E c \in CallIds : Done(tcalls, c) /\ "niche" \in tcalls[c].threw

-----------------------------------------------------------------------------
(* The competitor engine over a store of at most one social record, among   *)
(* them one whose author has no follower count.                             *)

AdmitPayloads == {PTwitterUp, PTwitterNoCount, PPinterest, PTikTok}

InitAdmit ==
  /\ \E ps \in SeqsUpTo(AdmitPayloads, 1) : StoreHolds(ps)
  /\ TrendInit0 /\ CompInit0 /\ StratInit0 /\ ScraperInit0 /\ GapInit0

SpecAdmit == InitAdmit /\ [][CompNext]_vars

-----------------------------------------------------------------------------
(* Properties of the admission of competitors. *)

MinAudience(platform) ==
  CASE platform = "twitter" -> TwitterMinFollowers
    [] platform = "tiktok" -> TikTokMinFollowers
    [] platform = "pinterest" -> PinterestMinSaves
    [] OTHER -> 0

\* C18: identification admits an actor only with the minimum audience of
\* its platform: every tracked profile has an audience count that is at
\* least the threshold (1000 Twitter followers, 5000 TikTok followers, 100
\* Pinterest saves).
C18_ProfilesMeetThreshold ==
  \A i \in 1..Len(Profiles) :
    /\ Profiles[i].metrics.followers # NoCount
    /\ Profiles[i].metrics.followers >= MinAudience(Profiles[i].platform)

\* The case of C18: a profile is tracked whose author came with no follower
\* count.
C18_AdmittedWithoutCount ==
  \E i \in 1..Len(Profiles) :
    Profiles[i].platform = "twitter" /\ Profiles[i].metrics.followers = NoCount

-----------------------------------------------------------------------------
(* Properties of a profile's content list. *)

IsPrefix(s, t) == Len(s) <= Len(t) /\ SubSeq(t, 1, Len(s)) = s

NoDuplicate(content) ==
  \A i, k \in 1..Len(content) :
    (content[i].type = content[k].type /\ content[i].key = content[k].key) => i = k

-----------------------------------------------------------------------------
(* Properties of the facets' coverage of the focus niches. *)

Covers(list, niche) == \E i \in 1..Len(list) : list[i].niche = niche

\* The facets s hold every niche of the focus niches: an entry in the
\* content, platform and product lists and a key in every budget allocation.
CoversFocus(s, focus) ==
  \A k \in 1..Len(focus) :
    /\ Covers(s.content, focus[k])
    /\ Covers(s.platform, focus[k])
    /\ Covers(s.product, focus[k])
    /\ s.budget # <<>>
    /\ \A i \in 1..Len(s.budget) : Covers(s.budget[i].allocation, focus[k])

\* C20: after a generateStrategy call has returned, every niche of its
\* options.focusNiches appears in every niche-scoped facet of the strategies
\* it returned, whether or not the engines hold data for the niche.
C20_FocusNichesCovered ==
  \A c \in CallIds :
    scalls[c].pc = "done" =>
      CoversFocus(scalls[c].returned, scalls[c].options.focusNiches)

\* The case of C20: a call has returned while a call with other focus
\* niches had built after it.
C20_ReturnedAfterOtherBuilt ==
  \E c, d \in CallIds :
    /\ scalls[c].pc = "done"
    /\ HasBuilt(d)
    /\ scalls[c].options.focusNiches # scalls[d].options.focusNiches
    /\ BuiltBy(scalls[c].returned.platform, d)
    /\ scalls[c].returned.platform # <<>>

\* The facets in place hold the focus niches of the call that built them,
\* with or without trend data for a niche.
NoOverlapCovered ==
  \A c \in CallIds :
    (HasBuilt(c) /\ ListsOf(strategies, c)) =>
      CoversFocus(strategies, scalls[c].options.focusNiches)

-----------------------------------------------------------------------------
(* The strategy generator beside the trend engine: generateStrategy is      *)
(* called while an analyzeAllData call of the trend engine may be           *)
(* suspended at one of its awaits.                                          *)

ReadPayloads == {PAmazon, PTwitterUp}

ReadNext ==
  \/ TrendStart(1) /\ TrendFrame
  \/ TrendAfterInit(1) /\ TrendFrame
  \/ TrendKeyword(1) /\ TrendFrame
  \/ TrendProduct(1) /\ TrendFrame
  \/ TrendTimeframe(1) /\ TrendFrame
  \/ TrendFinish(1) /\ TrendFrame
  \/ \E c \in CallIds, o \in StratOptions : StratStart(c, o) /\ StratFrame
  \/ \E c \in CallIds : StratInitialized(c) /\ StratFrame
  \/ \E c \in CallIds : StratAfterInit(c) /\ StratFrame
  \/ \E c \in CallIds : StratReturn(c) /\ StratFrame

\* A page load after an earlier session: the trend document is the one an
\* analysis of the store saved.
InitRead ==
  /\ \E ps \in SeqsUpTo(ReadPayloads, 1) :
       /\ StoreHolds(ps)
       /\ lsTrend = IF ps = <<>> THEN NoDoc ELSE ToJson(AnalysedOnce(searchData))
  /\ trendData = EmptyTrendData
  /\ tInit = FALSE
  /\ tcalls = [c \in CallIds |-> IdleCall]
  /\ synth = 0
  /\ CompInit0 /\ StratInit0 /\ ScraperInit0 /\ GapInit0

SpecRead == InitRead /\ [][ReadNext]_vars

\* A step of a generateStrategy call: the call's position changes.
StrategyStep == scalls' # scalls

\* C21: a generateStrategy call, with the initialization it triggers, only
\* reads the engines: no step of the call changes the persisted documents of
\* the trend and the competitor engine, nor the derived state an initialized
\* engine holds in memory (the first load of a not yet initialized engine is
\* a load, not a change).
C21_StrategyOnlyReads ==
  [][StrategyStep =>
       /\ lsTrend' = lsTrend
       /\ lsComp' = lsComp
       /\ (tInit => trendData' = trendData)
       /\ (cInit => competitorData' = competitorData)]_vars

\* A first generateStrategy call has run its initialization while an
\* analyzeAllData call of the trend engine was suspended after a sub-pass.
C21_InitializedUnderAnalysis ==
  \E c \in CallIds :
    /\ scalls[c].pc # "idle"
    /\ tcalls[1].reloaded
    /\ tcalls[1].passes >= 1

-----------------------------------------------------------------------------
(* The gap analysis as a function of the competitor count: the cutoffs are  *)
(* fixed at construction, and the analysis is made for one count after      *)
(* another.                                                                 *)

MaxCutoff == 3
MaxCount == 5
MaxAnalyses == 2

GapFrame ==
  UNCHANGED <<storeVars, trendVars, compVars, lastComp, stratVars, synth, scraperVars>>

GapStep ==
  \E count \in 0..MaxCount :
    /\ Len(gap.analyses) < MaxAnalyses
    /\ getCompetitiveGapAnalysis(count)

GapNext == GapStep /\ GapFrame

InitGap ==
  /\ \E low \in 0..MaxCutoff, high \in 0..MaxCutoff :
       /\ low <= high
       /\ gap = [NoGap EXCEPT !.low = low, !.high = high]
  /\ StoreInit /\ TrendInit0 /\ CompInit0 /\ StratInit0 /\ ScraperInit0

SpecGap == InitGap /\ [][GapNext]_vars

\* The order of the levels: high > medium > low.
LevelRank(level) ==
  IF level = "high" THEN 2 ELSE IF level = "medium" THEN 1 ELSE 0

\* C22: the opportunity level is monotonic in the competitor count: of two
\* analyses with the same cutoffs, the one with the larger competitorCount
\* never has the higher opportunityLevel.
C22_LevelMonotonic ==
  \A i, k \in 1..Len(gap.analyses) :
    gap.analyses[i].competitorCount <= gap.analyses[k].competitorCount
      => LevelRank(gap.analyses[k].opportunityLevel)
           <= LevelRank(gap.analyses[i].opportunityLevel)

\* Two analyses were made whose counts lie on the two sides of a cutoff:
\* the levels differ.
C22_LevelsDiffer ==
  \E i, k \in 1..Len(gap.analyses) :
    /\ gap.analyses[i].competitorCount < gap.analyses[k].competitorCount
    /\ gap.analyses[i].opportunityLevel = "high"
    /\ gap.analyses[k].opportunityLevel = "low"

-----------------------------------------------------------------------------
(* Properties of initialize() under a running analysis. *)

PopularityOf(td, k) ==
  IF k \in DOMAIN td.niches THEN td.niches[k].popularity ELSE 0

\* The niche sub-pass of call c is in the state the call returned: every
\* niche has the popularity it had when the call began plus the matching
\* records of the call's snapshot.
NichePassKept(calls, c) ==
  \A i \in 1..Len(PreferredNiches) :
    LET k == PreferredNiches[i]
    IN PopularityOf(calls[c].after, k)
         = PopularityOf(calls[c].before, k) + Cardinality(Matching(calls[c].allData, k))

\* A call that ran to its end with no other call in its way and no error.
RanClean(calls, c) ==
  calls[c].result = "ok" /\ ~calls[c].overlapped /\ calls[c].threw = {}

\* C23: an initialize() of the engine while an analyzeAllData call is in
\* flight does not discard the call's work: the updates of the niche
\* sub-pass are in the state the call saves and returns, whether or not
\* an initialize() ran between its sub-passes.
C23_InitializeKeepsWork ==
  \A c \in CallIds : RanClean(tcalls, c) => NichePassKept(tcalls, c)

\* Without an initialize() under the call the niche sub-pass is kept.
C23_KeptWithoutInitialize ==
  \A c \in CallIds :
    (RanClean(tcalls, c) /\ ~tcalls[c].reloaded) => NichePassKept(tcalls, c)

\* The case of C23: a call that began from a saved state has returned after
\* an initialize() ran under it, over a snapshot with a record matching a
\* niche.
C23_InitializedInFlight ==
  \E c \in CallIds :
    /\ RanClean(tcalls, c)
    /\ tcalls[c].reloaded
    /\ tcalls[c].prevDone # {}
    /\ \E i \in 1..Len(PreferredNiches) :
         Matching(tcalls[c].allData, PreferredNiches[i]) # {}

-----------------------------------------------------------------------------
(* Properties of what a generateStrategy call returns. *)

\* C24: the strategies a generateStrategy call returns are the facet lists
\* built from that call's own options, also when another call with other
\* options started before it returned.
C24_ReturnsOwnLists ==
  \A c \in CallIds :
    scalls[c].pc = "done" => ListsOf(scalls[c].returned, c)

\* The case of C24: a call has returned after another call, with other
\* options, had started and built while it was suspended.
C24_ReturnedUnderOverlap ==
  \E c, d \in CallIds :
    /\ c # d
    /\ scalls[c].pc = "done"
    /\ HasBuilt(d)
    /\ scalls[c].options # scalls[d].options
    /\ BuiltBy(scalls[c].returned.timeline, d)
    /\ scalls[c].returned.timeline # <<>>

-----------------------------------------------------------------------------
(* Properties of the result analyzeAllData reports. *)

\* C25: analyzeAllData reports success only if every sub-pass completed
\* without an error: a call that returned success: true has no sub-pass
\* that threw.
C25_SuccessMeansNoError ==
  \A c \in CallIds : tcalls[c].result = "ok" => tcalls[c].threw = {}

\* The case of C25: a call has returned in which the niche sub-pass threw.
C25_NichePassFailed ==
  \E c \in CallIds : Done(tcalls, c) /\ "niche" \in tcalls[c].threw

-----------------------------------------------------------------------------
(* The scraper service: tasks are added, and executeTask and                *)
(* executeAllPendingTasks calls run, each suspended while its scrape is     *)
(* under way.                                                               *)

MaxTasks == 2
TaskSources == {"twitter", "amazon", "facebook"}

ScraperFrame ==
  UNCHANGED <<storeVars, trendVars, compVars, lastComp, stratVars, synth, gap>>

AddTaskStep ==
  \E source \in TaskSources :
    /\ Len(scrapingTasks) < MaxTasks
    /\ addTask(source)

ScraperNext ==
  \/ AddTaskStep /\ ScraperFrame
  \/ \E c \in CallIds, id \in 1..MaxTasks : executeTask(c, id) /\ ScraperFrame
  \/ \E c \in CallIds : executeAllPendingTasks(c) /\ ScraperFrame
  \/ \E c \in CallIds : ScrapeResolves(c) /\ ScraperFrame

InitScraper ==
  StoreInit /\ TrendInit0 /\ CompInit0 /\ StratInit0 /\ ScraperInit0 /\ GapInit0

SpecScraper == InitScraper /\ [][ScraperNext]_vars

\* The number of times the result of task id was stored.
TimesStored(id) ==
  Cardinality({i \in 1..Len(scrapingResults) : scrapingResults[i] = id})

\* An executeAllPendingTasks call listed the task while it was pending.
ListedPending(c, id) ==
  /\ xcalls[c].kind = "all"
  /\ id \in SeqToSet(xcalls[c].queue) \cup SeqToSet(xcalls[c].settled)

\* C26: a pending task is executed at most once when calls overlap: for a
\* task that an executeAllPendingTasks call found pending, and that call
\* overlapped another executeAllPendingTasks or executeTask call, the scrape
\* has run at most once and the result was stored at most once.
C26_ExecutedAtMostOnce ==
  \A id \in 1..Len(scrapingTasks), c \in CallIds :
    (ListedPending(c, id) /\ xcalls[c].overlapped) =>
      /\ scrapingTasks[id].runs <= 1
      /\ TimesStored(id) <= 1

\* The case of C26: two executeAllPendingTasks calls that overlapped have
\* both returned, and a task both had found pending is completed.
C26_OverlappedCalls ==
  \E id \in 1..Len(scrapingTasks) :
    /\ \A c \in CallIds :
         xcalls[c].pc = "done" /\ xcalls[c].overlapped /\ ListedPending(c, id)
    /\ scrapingTasks[id].status = "completed"

-----------------------------------------------------------------------------
(* Properties of a task's status. *)

TaskStatuses == {"pending", "running", "completed", "failed"}

\* The task is completed with its result set, or failed with its error set.
Settled(task) ==
  \/ task.status = "completed" /\ task.result # NullPayload
  \/ task.status = "failed" /\ task.error # NoError

\* In this step a call has begun executeTask for the task.
BeginsTask(id) ==
  \E c \in CallIds :
    /\ xcalls'[c].pc = "scrape" /\ Head(xcalls'[c].queue) = id
    /\ IF xcalls[c].pc = "scrape" THEN Head(xcalls[c].queue) # id ELSE TRUE

\* The tasks whose executeTask call settled in this step, in call c.
SettlesIn(c) ==
  {xcalls'[c].settled[i] : i \in Len(xcalls[c].settled) + 1 .. Len(xcalls'[c].settled)}

StatusStep ==
  /\ \A id \in 1..Len(scrapingTasks) :
       (scrapingTasks'[id].status = "running" /\ scrapingTasks[id].status # "running")
         => BeginsTask(id)
  /\ \A c \in CallIds : \A id \in SettlesIn(c) : Settled(scrapingTasks'[id])

\* C27: a task's status is always pending, running, completed or failed; it
\* becomes running only in a step in which a call begins executeTask for
\* the task; and whenever an executeTask call for an existing task settles,
\* the task is completed with its result set or failed with its error set,
\* not left running.
C27_StatusLifecycle ==
  /\ [](\A id \in 1..Len(scrapingTasks) : scrapingTasks[id].status \in TaskStatuses)
  /\ [][StatusStep]_vars

\* The case of C27: an executeAllPendingTasks call has returned after one
\* of its executeTask calls returned and another threw.
C27_ReturnedAndThrew ==
  \E c \in CallIds :
    /\ xcalls[c].pc = "done"
    /\ \E i, k \in 1..Len(xcalls[c].settled) :
         /\ scrapingTasks[xcalls[c].settled[i]].status = "completed"
         /\ scrapingTasks[xcalls[c].settled[k]].status = "failed"

-----------------------------------------------------------------------------
(* Properties of the record store's indexes. *)

IndexIds(ix) == UNION {SeqToSet(ix[i][2]) : i \in 1..Len(ix)}

\* The number of times an index lists the id, under all its keys or under
\* one key.
Listed(ix, id) == Count(Flatten([i \in 1..Len(ix) |-> ix[i][2]]), id)
ListedUnder(ix, k, id) ==
  Count(Flatten([i \in 1..Len(ix) |-> IF ix[i][1] = k THEN ix[i][2] ELSE <<>>]), id)

\* Every id an index lists is the id of a stored record.
IndexesRefer ==
  IndexIds(indexes.byDate) \cup IndexIds(indexes.bySource) \cup IndexIds(indexes.byKeyword)
    \subseteq StoredIds(data)

\* C28: the indexes agree with the data: every id listed in byDate, bySource
\* or byKeyword is the id of a stored record, and the id of every stored
\* record is listed exactly once in byDate and exactly once under the
\* record's source key in bySource.
C28_IndexesAgree ==
  /\ IndexesRefer
  /\ \A rec \in RecordsOf(data) :
       /\ Listed(indexes.byDate, rec.id) = 1
       /\ ListedUnder(indexes.bySource, SourceKey(rec.category, rec.source), rec.id) = 1

\* The case of C28: storeData has stored a record under an id that was in
\* use, and the record is in the store with another one.
C28_StoredTwice ==
  /\ lastStore.returned = "id"
  /\ ~lastStore.fresh
  /\ lastStore.id \in StoredIds(data)
  /\ Cardinality(StoredIds(data)) = 1

\* While no id was used twice, the indexes agree with the data.
AgreeWhileFresh ==
  [][(C28_IndexesAgree /\ lastStore'.fresh) => C28_IndexesAgree']_vars

-----------------------------------------------------------------------------
(* Properties of a storeData call that fails. *)

NoIndexGrows ==
  /\ IndexSize(indexes'.byDate) <= IndexSize(indexes.byDate)
  /\ IndexSize(indexes'.bySource) <= IndexSize(indexes.bySource)
  /\ IndexSize(indexes'.byKeyword) <= IndexSize(indexes.byKeyword)

\* C29: a storeData call that fails and returns null leaves the data and
\* the indexes as they were: once the last storeData call returned null, no
\* step has added or changed a record or added an index entry.
C29_FailedStoreAddsNothing ==
  [][lastStore'.returned = "null" =>
       (RecordsOf(data') \subseteq RecordsOf(data) /\ NoIndexGrows)]_vars

\* The case of C29: storeData has returned null for a payload, and a record
\* with the id it had computed is in the store.
C29_NullReturnedRecordKept ==
  /\ lastStore.returned = "null"
  /\ lastStore.fresh
  /\ lastStore.id \in StoredIds(data)

-----------------------------------------------------------------------------
(* The competitor API with updates that carry any field of a profile, the   *)
(* id among them, between the steps of analysis calls.                      *)

KeyPayloads == {PTwitter, PPinterest}
KeyUpdates == {[niche |-> "unclassified"], [id |-> MaxId]}

KeyNext ==
  \/ \E id \in 1..MaxId, u \in KeyUpdates : UpdateCompetitorApi(id, u) /\ ApiFrame
  \/ \E id \in 1..MaxId : RemoveCompetitorApi(id) /\ ApiFrame
  \/ CompStart(1) /\ CompFrame
  \/ CompAfterInit(1) /\ CompFrame
  \/ CompStrategies(1) /\ CompFrame
  \/ CompContent(1) /\ CompFrame
  \/ CompPerformance(1) /\ CompFrame
  \/ CompByNiche(1) /\ CompFrame
  \/ CompFinish(1) /\ CompFrame

InitKey ==
  /\ \E p \in KeyPayloads : StoreHolds(<<p>>)
  /\ TrendInit0 /\ CompInit0 /\ StratInit0 /\ ScraperInit0 /\ GapInit0

SpecKey == InitKey /\ [][KeyNext]_vars

\* C30: every entry of the competitor map is stored under its own id: the
\* id of each profile is the key the profile is stored under.
C30_StoredUnderOwnId ==
  \A i \in 1..Len(Profiles) : Profiles[i].id = Profiles[i].key

\* The case of C30: updateCompetitor has returned true for a tracked id
\* after an analysis pass had added profiles.
C30_UpdatedTracked ==
  /\ lastComp.op = "update"
  /\ lastComp.returned
  /\ Tracked(competitorData, lastComp.id)
  /\ ccalls[1].passes >= 1

====
